---- MODULE Spec2Model ----
(***************************************************************************)
(* Model of the ECPSS demo: Shamir secret sharing over a prime field       *)
(* (src/src/crypto/shamir.ts, lines 1-162) and the epoch orchestrator      *)
(* with its nodes (the ecpss part of the same file, lines 164-585).        *)
(*                                                                         *)
(* Scaling.  The program works over the Mersenne prime 2^127 - 1 with 10   *)
(* nodes, a nominating committee of 5 and threshold 3.  The model keeps    *)
(* the structure (a Mersenne prime larger than every byte and every seat   *)
(* index, 1 < threshold <= nominatingSize < totalNodes) at values an       *)
(* exhaustive search can cover: 2^13 - 1, 3 nodes, committee 2,            *)
(* threshold 2.  bigint arithmetic has no overflow, and every product of   *)
(* the model stays below 2^31.                                             *)
(*                                                                         *)
(* Strings are sequences of character codes below 128, on which the UTF-8  *)
(* encoder is one byte per character.                                      *)
(***************************************************************************)
EXTENDS Integers, Sequences, FiniteSets, TLC

\* ------------------------------------------------------------------------
\* Bounds of the model.
\* ------------------------------------------------------------------------
\* encryptSecret and keepAlive are taken only while currentEpoch < MaxEpoch.
MaxEpoch == 2
\* The Shamir specification creates at most MaxShares shares,
MaxShares == 3
\* with a threshold of at most MaxThreshold,
MaxThreshold == 3
\* and hands them over to at most MaxSeats new seats.
MaxSeats == 3

\* The field specification evaluates polynomials of at most MaxCoefficients
\* coefficients
MaxCoefficients == 3
\* at the points 0..MaxPoint.
MaxPoint == 4

\* The election specification draws the election values from
\* 0..MaxElectionDraw.
MaxElectionDraw == 2

\* The longest string of one-byte characters the encoding round trip is
\* applied to.
MaxStringLength == 3

\* The application specifications take the clicks that lead to at most
\* MaxCalls calls of the simulator, at most MaxPending of them pending, and
\* at most MaxPresses presses of the keep-alive button between two expiries.
MaxCalls == 4
MaxPending == 2
MaxPresses == 2

\* The number of trigger calls started in the specification of the async
\* triggers.
MaxAsyncCalls == 2

\* The number of addLog calls between two clearLogs calls in the console
\* specification.
MaxLogged == 5

\* ------------------------------------------------------------------------
\* Program constants.
\* ------------------------------------------------------------------------
PRIME == 2^13 - 1
totalNodes == 3
nominatingSize == 2
threshold == 2

\* `null` where the program has `Share | null`: seat 0 is never a share's
\* (lines 88 and 508 number the seats from 1).
NoShare == [x |-> 0, y |-> 0]

\* `null` where the program has `number | null`: node ids start at 1.
NoNominee == 0

\* What a trigger returns: nothing, null or a string.
Void == [kind |-> "void", text |-> <<>>]
Null == [kind |-> "null", text |-> <<>>]
Text(str) == [kind |-> "string", text |-> str]

\* The secrets encryptSecret is called with: "", "A", "\0A".
Secrets == { <<>>, <<65>>, <<0, 65>> }

\* The secrets of the Shamir specification: those and " ", "\0", "AB", whose
\* encoding 16706 is not below PRIME.
ShamirSecrets == Secrets \cup { <<32>>, <<0>>, <<65, 66>> }

\* The values Math.random() is sampled at in an election.  Two values give
\* every set of nominators the rule of checkAndNominate can produce on
\* totalNodes nodes: each set of nominatingSize nodes (the others draw the
\* larger value) and, with ties at the limit, every node.
DrawSample == {0, 1}

\* The values randomCoefficient() is sampled at (it ranges over [0, PRIME)):
\* in the Shamir specification, and in the triggers of the simulator.
CoefSample == {0, 1, PRIME - 1}
EpochCoefs == {0, PRIME - 1}

\* The random coefficients of one sub-sharing polynomial for threshold t.
SubShareTails(t) == { [i \in 1..(t - 1) |-> c] : c \in EpochCoefs }

\* ------------------------------------------------------------------------
\* bigint arithmetic: / and % truncate towards zero.
\* ------------------------------------------------------------------------
Abs(a) == IF a < 0 THEN -a ELSE a

BigDiv(a, b) ==
  IF (a >= 0) = (b > 0) THEN Abs(a) \div Abs(b) ELSE -(Abs(a) \div Abs(b))

BigRem(a, b) == IF a >= 0 THEN a % Abs(b) ELSE -((-a) % Abs(b))

\* ------------------------------------------------------------------------
\* ShamirSecretSharing
\* ------------------------------------------------------------------------
\* A string is the sequence of its code points.
\* The UTF-8 bytes of one code point; a lone surrogate is encoded as U+FFFD.
utf8Bytes(c) ==
  IF c < 128 THEN <<c>>
  ELSE IF c < 2048 THEN <<192 + (c \div 64), 128 + (c % 64)>>
  ELSE IF c \in 55296..57343 THEN <<239, 191, 189>>
  ELSE IF c < 65536
  THEN <<224 + (c \div 4096), 128 + ((c \div 64) % 64), 128 + (c % 64)>>
  ELSE <<240 + (c \div 262144), 128 + ((c \div 4096) % 64),
         128 + ((c \div 64) % 64), 128 + (c % 64)>>

\* new TextEncoder().encode(str)
RECURSIVE TextEncode(_)
TextEncode(str) ==
  IF str = <<>> THEN <<>> ELSE utf8Bytes(Head(str)) \o TextEncode(Tail(str))

\* The UTF-8 decoder of TextDecoder: codePoint and needed are the code point
\* under construction and the bytes it still needs, lower..upper the range of
\* the next byte; a malformed sequence gives U+FFFD and the byte that ended
\* it is read again.
RECURSIVE utf8Decode(_, _, _, _, _, _)
utf8Decode(bytes, i, codePoint, needed, lower, upper) ==
  IF i > Len(bytes) THEN (IF needed # 0 THEN <<65533>> ELSE <<>>)
  ELSE LET b == bytes[i]
       IN  IF needed = 0
           THEN IF b < 128
                THEN <<b>> \o utf8Decode(bytes, i + 1, 0, 0, 128, 191)
                ELSE IF b \in 194..223
                THEN utf8Decode(bytes, i + 1, b - 192, 1, 128, 191)
                ELSE IF b \in 224..239
                THEN utf8Decode(bytes, i + 1, b - 224, 2,
                                IF b = 224 THEN 160 ELSE 128,
                                IF b = 237 THEN 159 ELSE 191)
                ELSE IF b \in 240..244
                THEN utf8Decode(bytes, i + 1, b - 240, 3,
                                IF b = 240 THEN 144 ELSE 128,
                                IF b = 244 THEN 143 ELSE 191)
                ELSE <<65533>> \o utf8Decode(bytes, i + 1, 0, 0, 128, 191)
           ELSE IF b \notin lower..upper
           THEN <<65533>> \o utf8Decode(bytes, i, 0, 0, 128, 191)
           ELSE IF needed = 1
           THEN <<codePoint * 64 + (b - 128)>>
                \o utf8Decode(bytes, i + 1, 0, 0, 128, 191)
           ELSE utf8Decode(bytes, i + 1, codePoint * 64 + (b - 128),
                           needed - 1, 128, 191)

\* new TextDecoder().decode(bytes): ignoreBOM is false, a byte order mark
\* (U+FEFF) at the start is not part of the string returned.
TextDecode(bytes) ==
  LET decoded == utf8Decode(bytes, 1, 0, 0, 128, 191)
  IN  IF decoded # <<>> /\ Head(decoded) = 65279 THEN Tail(decoded)
      ELSE decoded

RECURSIVE stringToBigIntLoop(_, _, _)
stringToBigIntLoop(bytes, i, result) ==
  IF i > Len(bytes) THEN result
  ELSE stringToBigIntLoop(bytes, i + 1, result * 256 + bytes[i])

stringToBigInt(str) == stringToBigIntLoop(TextEncode(str), 1, 0)

RECURSIVE bigIntToStringLoop(_, _)
bigIntToStringLoop(temp, bytes) ==
  IF temp > 0 THEN bigIntToStringLoop(temp \div 256, <<temp % 256>> \o bytes)
  ELSE bytes

bigIntToString(num) == TextDecode(bigIntToStringLoop(num, <<>>))

RECURSIVE evaluatePolynomialLoop(_, _, _, _)
evaluatePolynomialLoop(coefficients, x, i, result) ==
  IF i < 1 THEN result
  ELSE evaluatePolynomialLoop(coefficients, x, i - 1,
                              BigRem(result * x + coefficients[i], PRIME))

\* Faulty variant of evaluatePolynomial: Horner's loop runs from the first
\* coefficient to the last.
RECURSIVE evaluatePolynomialAscending(_, _)
evaluatePolynomialAscending(coefficients, x) ==
  IF coefficients = <<>> THEN 0
  ELSE BigRem(evaluatePolynomialAscending(
                SubSeq(coefficients, 1, Len(coefficients) - 1), x) * x
              + coefficients[Len(coefficients)], PRIME)

evaluatePolynomial(coefficients, x) ==
  evaluatePolynomialLoop(coefficients, x, Len(coefficients), 0)

\* Faulty variant of createShares: the coefficient loop stops one short, so
\* the polynomial has degree threshold - 2.
createSharesShortPolynomial(secret, n, t, rnd) ==
  LET coefficients == <<stringToBigInt(secret)>> \o SubSeq(rnd, 1, t - 2)
  IN  [i \in 1..n |-> [x |-> i, y |-> evaluatePolynomial(coefficients, i)]]

\* Faulty variant of createShares: the polynomial is evaluated at 0..n-1.
createSharesFromZero(secret, n, t, rnd) ==
  LET coefficients == <<stringToBigInt(secret)>> \o SubSeq(rnd, 1, t - 1)
  IN  [i \in 1..n |->
         [x |-> i - 1, y |-> evaluatePolynomial(coefficients, i - 1)]]

\* rnd is the sequence of the threshold - 1 values randomCoefficient() returns.
createShares(secret, n, t, rnd) ==
  LET coefficients == <<stringToBigInt(secret)>> \o SubSeq(rnd, 1, t - 1)
  IN  [i \in 1..n |-> [x |-> i, y |-> evaluatePolynomial(coefficients, i)]]

RECURSIVE modInverseLoop(_, _, _, _)
modInverseLoop(oldR, r, oldS, s) ==
  IF r # 0
  THEN LET quotient == BigDiv(oldR, r)
       IN  modInverseLoop(r, oldR - quotient * r, s, oldS - quotient * s)
  ELSE oldS

\* Faulty variant of modInverse: a negative coefficient is returned as is.
modInverseUnsigned(a, m) == modInverseLoop(a, m, 1, 0)

modInverse(a, m) ==
  LET oldS == modInverseLoop(a, m, 1, 0)
  IN  IF oldS < 0 THEN oldS + m ELSE oldS

\* The number of times the body of the while loop of modInverse runs.
RECURSIVE modInverseIterations(_, _)
modInverseIterations(oldR, r) ==
  IF r # 0
  THEN 1 + modInverseIterations(r, oldR - BigDiv(oldR, r) * r)
  ELSE 0

\* The inner loop of reconstructSecret for share i: <<numerator, denominator>>.
RECURSIVE lagrangeLoop(_, _, _, _, _)
lagrangeLoop(xs, i, j, numerator, denominator) ==
  IF j > Len(xs) THEN <<numerator, denominator>>
  ELSE IF i # j
       THEN lagrangeLoop(xs, i, j + 1,
                         BigRem(numerator * (-xs[j]), PRIME),
                         BigRem(denominator * (xs[i] - xs[j]), PRIME))
       ELSE lagrangeLoop(xs, i, j + 1, numerator, denominator)

\* Faulty variant of Normalize: a negative residue is left as it is.
NormalizeSkipped(v) == v

\* "Ensure positive": lines 140-147 and 156-158.
Normalize(v) == IF v < 0 THEN BigRem(BigRem(v, PRIME) + PRIME, PRIME) ELSE v

\* Faulty variant of basisAtZero: the denominator is not made positive.
basisAtZeroRawDenominator(xs, i) ==
  LET nd == lagrangeLoop(xs, i, 1, 1, 1)
      numerator == Normalize(nd[1])
  IN  BigRem(numerator * modInverse(nd[2], PRIME), PRIME)

\* Faulty variant of lagrangeTerms: the products are used as the loop
\* leaves them.
lagrangeTermsRaw(xs, i) ==
  LET nd == lagrangeLoop(xs, i, 1, 1, 1)
  IN  [numerator |-> nd[1], denominator |-> nd[2]]

\* The numerator used and the denominator passed to modInverse at line 150
\* for share i.
lagrangeTerms(xs, i) ==
  LET nd == lagrangeLoop(xs, i, 1, 1, 1)
  IN  [numerator |-> Normalize(nd[1]), denominator |-> Normalize(nd[2])]

\* The Lagrange basis value at 0 that reconstructSecret computes for share i.
basisAtZero(xs, i) ==
  LET terms == lagrangeTerms(xs, i)
  IN  BigRem(terms.numerator * modInverse(terms.denominator, PRIME), PRIME)

RECURSIVE interpolateLoop(_, _, _)
interpolateLoop(shares, i, secret) ==
  IF i > Len(shares) THEN secret
  ELSE LET xs == [k \in 1..Len(shares) |-> shares[k].x]
           term == BigRem(shares[i].y * basisAtZero(xs, i), PRIME)
       IN  interpolateLoop(shares, i + 1, BigRem(secret + term, PRIME))

\* The field element reconstructSecret decodes.
interpolateAtZero(shares) == Normalize(interpolateLoop(shares, 1, 0))

reconstructSecret(shares) == bigIntToString(interpolateAtZero(shares))

\* The helper computeNewShareFromSubShares calls: the Lagrange basis value at
\* 0 of xs[index] over xs, in [0, PRIME).
RECURSIVE lagrangeProducts(_, _, _, _, _)
lagrangeProducts(xs, index, j, num, den) ==
  IF j > Len(xs) THEN <<num, den>>
  ELSE IF j = index THEN lagrangeProducts(xs, index, j + 1, num, den)
  ELSE lagrangeProducts(xs, index, j + 1,
                        (num * ((PRIME - xs[j]) % PRIME)) % PRIME,
                        (den * ((xs[index] - xs[j]) % PRIME)) % PRIME)

lagrangeCoefficient(xs, index) ==
  LET nd == lagrangeProducts(xs, index, 1, 1, 1)
  IN  (nd[1] * modInverse(nd[2], PRIME)) % PRIME

\* ------------------------------------------------------------------------
\* Node
\* ------------------------------------------------------------------------
\* new Node(id, logCallback): randomValue = 0, share = null.
NewNode == [randomValue |-> 0, share |-> NoShare]

\* Faulty variant of createSubShares: the evaluation points start at 0.
createSubSharesFromZero(share, numNewSeats, t, rnd) ==
  IF share = NoShare THEN [threw |-> TRUE, subShares |-> <<>>, points |-> <<>>]
  ELSE LET coefficients == <<share.y>> \o SubSeq(rnd, 1, t - 1)
           points == [k \in 1..numNewSeats |-> k - 1]
       IN  [threw |-> FALSE,
            subShares |->
              [k \in 1..numNewSeats |->
                 evaluatePolynomial(coefficients, points[k])],
            points |-> points]

\* Faulty variant of createSubShares: a node without a share sub-shares 0.
createSubSharesOfNothing(share, numNewSeats, t, rnd) ==
  LET coefficients == <<share.y>> \o SubSeq(rnd, 1, t - 1)
      points == [k \in 1..numNewSeats |-> k]
  IN  [threw |-> FALSE,
       subShares |->
         [k \in 1..numNewSeats |->
            evaluatePolynomial(coefficients, points[k])],
       points |-> points]

\* Faulty variant of createSubShares: the polynomial is one degree short, its
\* last random coefficient left out.
createSubSharesShortPolynomial(share, numNewSeats, t, rnd) ==
  IF share = NoShare THEN [threw |-> TRUE, subShares |-> <<>>, points |-> <<>>]
  ELSE LET coefficients == <<share.y>> \o SubSeq(rnd, 1, t - 2)
           points == [k \in 1..numNewSeats |-> k]
       IN  [threw |-> FALSE,
            subShares |->
              [k \in 1..numNewSeats |->
                 evaluatePolynomial(coefficients, points[k])],
            points |-> points]

\* rnd is the sequence of the threshold - 1 values randomCoefficient() returns.
\* threw: the call raised 'Node has no share to create sub-shares from'.
\* points: the values of k evaluatePolynomial is called with (lines 204-205).
createSubShares(share, numNewSeats, t, rnd) ==
  IF share = NoShare THEN [threw |-> TRUE, subShares |-> <<>>, points |-> <<>>]
  ELSE LET coefficients == <<share.y>> \o SubSeq(rnd, 1, t - 1)
           points == [k \in 1..numNewSeats |-> k]
       IN  [threw |-> FALSE,
            subShares |->
              [k \in 1..numNewSeats |->
                 evaluatePolynomial(coefficients, points[k])],
            points |-> points]

RECURSIVE newShareValueLoop(_, _, _, _)
newShareValueLoop(subShareValues, oldSeatIndices, j, newShareValue) ==
  IF j > Len(subShareValues) THEN newShareValue
  ELSE LET lambda == lagrangeCoefficient(oldSeatIndices, j)
           term == BigRem(lambda * subShareValues[j], PRIME)
       IN  newShareValueLoop(subShareValues, oldSeatIndices, j + 1,
                             BigRem(newShareValue + term, PRIME))

\* Faulty variant of computeNewShareFromSubShares: the share is stored at
\* the zero-based seat.
computeNewShareAtZeroBasedSeat(seatIndex, subShareValues, oldSeatIndices) ==
  [x |-> seatIndex - 1,
   y |-> Normalize(newShareValueLoop(subShareValues, oldSeatIndices, 1, 0))]

\* Faulty variant of computeNewShareFromSubShares: the first sub-share is
\* taken as it is, without the Lagrange coefficients.
computeNewShareUnweighted(seatIndex, subShareValues, oldSeatIndices) ==
  [x |-> seatIndex, y |-> subShareValues[1] % PRIME]

\* The share the node holds afterwards.
computeNewShareFromSubShares(seatIndex, subShareValues, oldSeatIndices) ==
  [x |-> seatIndex,
   y |-> Normalize(newShareValueLoop(subShareValues, oldSeatIndices, 1, 0))]

\* [...allValues].sort((a, b) => a - b)
RECURSIVE insertSorted(_, _)
insertSorted(sorted, v) ==
  IF sorted = <<>> THEN <<v>>
  ELSE IF v < Head(sorted) THEN <<v>> \o sorted
  ELSE <<Head(sorted)>> \o insertSorted(Tail(sorted), v)

RECURSIVE sortValues(_)
sortValues(values) ==
  IF values = <<>> THEN <<>>
  ELSE insertSorted(sortValues(Tail(values)), Head(values))

\* Faulty variant of candidatesOf: the node itself stays a candidate.
candidatesOfAll(id, availableNodes) == availableNodes

candidatesOf(id, availableNodes) == SelectSeq(availableNodes, LAMBDA n : n # id)

\* The values Math.floor(Math.random() * len) can take.
RandomIndices(len) == IF len = 0 THEN {0} ELSE 0..(len - 1)

\* Faulty variant of checkAndNominate: a node at the limit does not nominate.
checkAndNominateStrict(id, randomValue, allValues, nominating, availableNodes, randomIndex) ==
  LET sortedValues == sortValues(allValues)
      limit == sortedValues[nominating]
      candidates == candidatesOf(id, availableNodes)
  IN  IF randomValue < limit
      THEN IF randomIndex + 1 <= Len(candidates)
           THEN candidates[randomIndex + 1] ELSE id
      ELSE NoNominee

\* Faulty variant of checkAndNominate: the limit is read one place too low.
checkAndNominateLowLimit(id, randomValue, allValues, nominating, availableNodes, randomIndex) ==
  LET sortedValues == sortValues(allValues)
      limit == sortedValues[nominating - 1]
      candidates == candidatesOf(id, availableNodes)
  IN  IF randomValue <= limit
      THEN IF randomIndex + 1 <= Len(candidates)
           THEN candidates[randomIndex + 1] ELSE id
      ELSE NoNominee

\* randomIndex is the zero-based index drawn among the candidates.
checkAndNominate(id, randomValue, allValues, nominating, availableNodes, randomIndex) ==
  LET sortedValues == sortValues(allValues)
      limit == sortedValues[nominating]
      candidates == candidatesOf(id, availableNodes)
  IN  IF randomValue <= limit
      THEN IF randomIndex + 1 <= Len(candidates)
           THEN candidates[randomIndex + 1] ELSE id
      ELSE NoNominee

\* Faulty variant of reset: the election value is kept.
resetShareOnly(node) == [randomValue |-> node.randomValue, share |-> NoShare]

reset(node) == [randomValue |-> 0, share |-> NoShare]

\* receiveShare(share): this.share = share.
receiveShare(node, share) == [node EXCEPT !.share = share]

\* Faulty variant of transferShareTo: the source keeps its share.
transferShareToKeeping(ns, source, nextHolder) ==
  IF ns[source].share # NoShare
  THEN [returned |-> TRUE,
        nodes |-> [ns EXCEPT ![nextHolder] = receiveShare(@, ns[source].share)]]
  ELSE [returned |-> FALSE, nodes |-> ns]

\* ns[source].transferShareTo(ns[nextHolder]): the value returned and the
\* nodes afterwards.  The source is cleared first, then the next holder
\* receives the copy; the two may be the same node.
transferShareTo(ns, source, nextHolder) ==
  IF ns[source].share # NoShare
  THEN LET shareCopy == ns[source].share
           cleared == [ns EXCEPT ![source].share = NoShare]
       IN  [returned |-> TRUE,
            nodes |-> [cleared EXCEPT ![nextHolder] = receiveShare(@, shareCopy)]]
  ELSE [returned |-> FALSE, nodes |-> ns]

\* ------------------------------------------------------------------------
\* ECPSSSimulator
\* ------------------------------------------------------------------------
VARIABLES
  currentEpoch,  \* ECPSSSimulator.currentEpoch
  nodes,         \* ECPSSSimulator.nodes: id -> Node (randomValue, share)
  lastOp,        \* the trigger that ran last
  lastSecret,    \* the argument of the last encryptSecret
  holders,       \* newHoldingMembers of the last election
  result,        \* the value the last trigger returned
  outcome,       \* the last message the last trigger logged
  preEpoch,      \* currentEpoch when the last trigger was called
  preHeld,       \* number of nodes holding a share when it was called
  run            \* custody history, see RunAfter
  , shamir       \* state of the Shamir and field specifications
  , election     \* state of the election specification
  , nodeCall     \* state of the node specification
  , app          \* state of the application driver
  , trace        \* what the last trigger computed, see NoTrace
  , async        \* state of the specification of the async triggers
  , logs         \* state of the console specification

vars == <<currentEpoch, nodes, lastOp, lastSecret, holders, result, outcome,
          preEpoch, preHeld, run, shamir, election, nodeCall, app, trace,
          async, logs>>

\* points: the x at which the last trigger evaluated a sharing or sub-sharing
\* polynomial; reconstructs: how many times it called
\* ShamirSecretSharing.reconstructSecret.
NoTrace == [points |-> {}, reconstructs |-> 0]

NodeIds == 1..totalNodes

\* Array.from(this.nodes.keys()): insertion order 1..totalNodes.
nodeKeys == [i \in 1..totalNodes |-> i]

HeldIds(ns) == {i \in NodeIds : ns[i].share # NoShare}

initializeNodes == [i \in NodeIds |-> NewNode]

resetAllNodes(ns) == [i \in NodeIds |-> reset(ns[i])]

\* Faulty variant of availableIds: the members selected stay available.
availableIdsUnfiltered(availableNodes, newHoldingMembers) == availableNodes

\* availableNodes.filter(id => !newHoldingMembers.includes(id))
availableIds(availableNodes, newHoldingMembers) ==
  SelectSeq(availableNodes,
            LAMBDA n : \A k \in 1..Len(newHoldingMembers) :
                         newHoldingMembers[k] # n)

\* The nomination loop of startNewEpoch from node id on: every list of
\* holding members the random selections can produce.
RECURSIVE nominateFrom(_, _, _, _)
nominateFrom(id, ns, allValues, members) ==
  IF id > totalNodes THEN {members}
  ELSE LET available == availableIds(nodeKeys, members)
           picks == RandomIndices(Len(candidatesOf(id, available)))
       IN  UNION { LET nominated ==
                         checkAndNominate(id, ns[id].randomValue, allValues,
                                          nominatingSize, available, r)
                   IN  IF nominated # NoNominee
                       THEN nominateFrom(id + 1, ns, allValues,
                                         Append(members, nominated))
                       ELSE nominateFrom(id + 1, ns, allValues, members)
                 : r \in picks }

\* The election of startNewEpoch on nodes whose draws are made.
Elections(ns) ==
  nominateFrom(1, ns, [i \in 1..totalNodes |-> ns[i].randomValue], <<>>)

Draws == [NodeIds -> DrawSample]

generateRandomValues(ns, draws) ==
  [i \in NodeIds |-> [ns[i] EXCEPT !.randomValue = draws[i]]]

RECURSIVE distributeLoop(_, _, _, _)
distributeLoop(ns, holderIds, shares, i) ==
  IF i > Len(holderIds) \/ i > Len(shares) THEN ns
  ELSE IF holderIds[i] \notin NodeIds
       THEN distributeLoop(ns, holderIds, shares, i + 1)
       ELSE distributeLoop([ns EXCEPT ![holderIds[i]].share = shares[i]],
                           holderIds, shares, i + 1)

\* Faulty variant of distributeInitialShares: holder i receives share i + 1.
distributeInitialSharesShifted(ns, holderIds, shares) ==
  distributeLoop(ns, holderIds, Tail(shares), 1)

distributeInitialShares(ns, holderIds, shares) ==
  distributeLoop(ns, holderIds, shares, 1)

\* The random coefficients of the sub-sharing polynomials, one sequence per
\* old node.  Only the first `threshold` rows of subShareMatrix are read
\* (line 502), so the rows after them take one fixed choice.
SubShareDraws(count) ==
  { f \in [1..count -> SubShareTails(threshold)] :
      \A j \in 1..count :
        j > threshold => \A i \in 1..(threshold - 1) : f[j][i] = 0 }

RECURSIVE recombineLoop(_, _, _, _, _)
recombineLoop(ns, newHolderIds, subShareMatrix, oldIndicesToUse, k) ==
  IF k > Len(newHolderIds) THEN ns
  ELSE IF newHolderIds[k] \notin NodeIds
       THEN recombineLoop(ns, newHolderIds, subShareMatrix, oldIndicesToUse,
                          k + 1)
       ELSE LET subSharesForThisSeat ==
                  [j \in 1..threshold |-> subShareMatrix[j][k]]
                newShare ==
                  computeNewShareFromSubShares(k, subSharesForThisSeat,
                                               oldIndicesToUse)
            IN  recombineLoop([ns EXCEPT ![newHolderIds[k]].share = newShare],
                              newHolderIds, subShareMatrix, oldIndicesToUse,
                              k + 1)

\* The points at which the old nodes evaluate their sub-sharing polynomials
\* in step 2 of transferShares.
subSharePoints(ns, oldNodesWithShares, numNewSeats, rnds) ==
  UNION { LET points ==
                createSubShares(ns[oldNodesWithShares[j]].share, numNewSeats,
                                threshold, rnds[j]).points
          IN  { points[k] : k \in 1..Len(points) }
          : j \in 1..Len(oldNodesWithShares) }

\* The message of the error createSubShares throws.
NoShareHeld == "Node has no share to create sub-shares from"

\* Faulty variant of transferShares: the new shares are stored in the old
\* node map, which is not replaced.
transferSharesKeepingNodes(ns, newHolderIds, rnds) ==
  LET oldNodesWithShares ==
        SelectSeq(nodeKeys, LAMBDA n : ns[n].share # NoShare)
      count == Len(oldNodesWithShares)
      subShareMatrix ==
        [j \in 1..count |->
           createSubShares(ns[oldNodesWithShares[j]].share, Len(newHolderIds),
                           threshold, rnds[j]).subShares]
      oldSeatIndices == [j \in 1..count |-> ns[oldNodesWithShares[j]].share.x]
      oldIndicesToUse ==
        SubSeq(oldSeatIndices, 1, IF count < threshold THEN count ELSE threshold)
      points == subSharePoints(ns, oldNodesWithShares, Len(newHolderIds), rnds)
  IN  IF count = 0
      THEN [nodes |-> ns, log |-> "No shares to transfer", points |-> {}]
      ELSE IF count < threshold /\ Len(newHolderIds) > 0
      THEN [nodes |-> ns, log |-> "TypeError", points |-> points]
      ELSE [nodes |-> recombineLoop(ns, newHolderIds, subShareMatrix,
                                    oldIndicesToUse, 1),
            log |-> "new shares created via handover", points |-> points]

\* transferShares: the node map afterwards and the message logged last.
\* oldNodesWithShares is in the order of the node map.
transferShares(ns, newHolderIds, rnds) ==
  LET oldNodesWithShares ==
        SelectSeq(nodeKeys, LAMBDA n : ns[n].share # NoShare)
      count == Len(oldNodesWithShares)
      subShareMatrix ==
        [j \in 1..count |->
           createSubShares(ns[oldNodesWithShares[j]].share, Len(newHolderIds),
                           threshold, rnds[j]).subShares]
      oldSeatIndices == [j \in 1..count |-> ns[oldNodesWithShares[j]].share.x]
      oldIndicesToUse ==
        SubSeq(oldSeatIndices, 1, IF count < threshold THEN count ELSE threshold)
      points == subSharePoints(ns, oldNodesWithShares, Len(newHolderIds), rnds)
  IN  IF count = 0
      THEN [nodes |-> ns, log |-> "No shares to transfer", points |-> {}]
      ELSE IF \E j \in 1..count :
                createSubShares(ns[oldNodesWithShares[j]].share,
                                Len(newHolderIds), threshold, rnds[j]).threw
      THEN \* thrown in step 2, before the node map is replaced
           [nodes |-> ns, log |-> NoShareHeld, points |-> {}]
      ELSE IF count < threshold /\ Len(newHolderIds) > 0
      THEN \* subShareMatrix[j] is undefined for j >= count: TypeError, thrown
           \* after the node map has been replaced
           [nodes |-> initializeNodes, log |-> "TypeError", points |-> points]
      ELSE [nodes |-> recombineLoop(initializeNodes, newHolderIds,
                                    subShareMatrix, oldIndicesToUse, 1),
            log |-> "new shares created via handover", points |-> points]

\* How the custody in progress came about:
\*   "clean"    encryptSecret called when Idle (epoch 0, no share held),
\*              followed by keepAlive calls only
\*   "returned" reconstructSecret has just ended a clean custody
\*   "other"    anything else
RunAfter(op) ==
  CASE op = "encryptSecret" ->
         IF currentEpoch = 0 /\ HeldIds(nodes) = {} THEN "clean" ELSE "other"
    [] op = "keepAlive" -> IF run = "clean" THEN "clean" ELSE "other"
    [] OTHER -> IF run = "clean" THEN "returned" ELSE "other"

Init ==
  /\ currentEpoch = 0
  /\ nodes = initializeNodes
  /\ lastOp = "new"
  /\ lastSecret = <<>>
  /\ holders = <<>>
  /\ result = Void
  /\ outcome = ""
  /\ preEpoch = 0
  /\ preHeld = 0
  /\ run = "other"
  /\ shamir = [op |-> "none"]
  /\ election = [pc |-> "none"]
  /\ nodeCall = [op |-> "none"]
  /\ app = [pc |-> "none"]
  /\ async = [pc |-> "none"]
  /\ logs = <<>>
  /\ trace = NoTrace

\* encryptSecret(secret), with startNewEpoch(initialShares) inside it.
encryptSecret(secret) ==
  /\ currentEpoch < MaxEpoch
  /\ \E draws \in Draws :
       LET drawn == generateRandomValues(nodes, draws)
       IN  \E newHoldingMembers \in Elections(drawn),
              rnd \in [1..(threshold - 1) -> EpochCoefs] :
             LET initialShares ==
                   createShares(secret, nominatingSize, threshold, rnd)
             IN  /\ currentEpoch' = currentEpoch + 1
                 /\ nodes' = distributeInitialShares(drawn, newHoldingMembers,
                                                     initialShares)
                 /\ holders' = newHoldingMembers
                 /\ trace' = [points |-> { initialShares[i].x :
                                            i \in 1..Len(initialShares) },
                              reconstructs |-> 0]
  /\ lastOp' = "encryptSecret"
  /\ lastSecret' = secret
  /\ result' = Void
  /\ outcome' = "Secret encrypted and first epoch started"
  /\ preEpoch' = currentEpoch
  /\ preHeld' = Cardinality(HeldIds(nodes))
  /\ run' = RunAfter("encryptSecret")
  /\ UNCHANGED <<shamir, election, nodeCall, app, async, logs>>

\* keepAlive(), with startNewEpoch() inside it.
keepAlive ==
  /\ currentEpoch < MaxEpoch
  /\ \E draws \in Draws :
       LET drawn == generateRandomValues(nodes, draws)
       IN  \E newHoldingMembers \in Elections(drawn),
              rnds \in SubShareDraws(Cardinality(HeldIds(nodes))) :
             LET after == transferShares(drawn, newHoldingMembers, rnds)
             IN  /\ currentEpoch' = currentEpoch + 1
                 /\ nodes' = after.nodes
                 /\ outcome' = after.log
                 /\ holders' = newHoldingMembers
                 /\ trace' = [points |-> after.points, reconstructs |-> 0]
  /\ lastOp' = "keepAlive"
  /\ result' = Void
  /\ preEpoch' = currentEpoch
  /\ preHeld' = Cardinality(HeldIds(nodes))
  /\ run' = RunAfter("keepAlive")
  /\ UNCHANGED <<lastSecret, shamir, election, nodeCall, app, async, logs>>

\* Faulty variant of ECPSSSimulator.reconstructSecret(): more than `threshold`
\* shares are required.
simulatorReconstructSecretStrict ==
  LET sharesCollected ==
        LET ids == SelectSeq(nodeKeys, LAMBDA n : nodes[n].share # NoShare)
        IN  [k \in 1..Len(ids) |-> nodes[ids[k]].share]
  IN  /\ IF Len(sharesCollected) > threshold
         THEN /\ result' = Text(reconstructSecret(
                                  SubSeq(sharesCollected, 1, threshold)))
              /\ outcome' = "Secret successfully reconstructed"
              /\ trace' = [points |-> {}, reconstructs |-> 1]
         ELSE /\ result' = Null
              /\ outcome' = "Not enough shares"
              /\ trace' = NoTrace
      /\ currentEpoch' = 0
      /\ nodes' = resetAllNodes(nodes)
      /\ lastOp' = "reconstructSecret"
      /\ preEpoch' = currentEpoch
      /\ preHeld' = Cardinality(HeldIds(nodes))
      /\ run' = RunAfter("reconstructSecret")
      /\ UNCHANGED <<lastSecret, holders, shamir, election, nodeCall, app, async, logs>>

\* ECPSSSimulator.reconstructSecret()
simulatorReconstructSecret ==
  LET sharesCollected ==
        LET ids == SelectSeq(nodeKeys, LAMBDA n : nodes[n].share # NoShare)
        IN  [k \in 1..Len(ids) |-> nodes[ids[k]].share]
  IN  /\ IF Len(sharesCollected) >= threshold
         THEN /\ result' = Text(reconstructSecret(
                                  SubSeq(sharesCollected, 1, threshold)))
              /\ outcome' = "Secret successfully reconstructed"
              /\ trace' = [points |-> {}, reconstructs |-> 1]
         ELSE /\ result' = Null
              /\ outcome' = "Not enough shares"
              /\ trace' = NoTrace
      /\ currentEpoch' = 0
      /\ nodes' = resetAllNodes(nodes)
      /\ lastOp' = "reconstructSecret"
      /\ preEpoch' = currentEpoch
      /\ preHeld' = Cardinality(HeldIds(nodes))
      /\ run' = RunAfter("reconstructSecret")
      /\ UNCHANGED <<lastSecret, holders, shamir, election, nodeCall, app, async, logs>>

Next ==
  \/ \E secret \in Secrets : encryptSecret(secret)
  \/ keepAlive
  \/ simulatorReconstructSecret

Spec == Init /\ [][Next]_vars

\* ------------------------------------------------------------------------
\* The Shamir specification: createShares, reconstructSecret and one
\* handover (createSubShares, computeNewShareFromSubShares) on inputs drawn
\* from bounded sets.  shamir.op is the step taken last.
\* ------------------------------------------------------------------------
\* createShares(secret, n, t) with n >= t >= 1 and the draws rnd.
ShamirInputs ==
  UNION { { [op |-> "input", secret |-> secret, n |-> n, t |-> t, rnd |-> rnd,
             shares |-> <<>>, subsRange |-> <<0, 0>>, picked |-> <<>>,
             value |-> 0, text |-> <<>>] :
              secret \in ShamirSecrets,
              n \in t..MaxShares,
              rnd \in [1..(t - 1) -> CoefSample] } : t \in 1..MaxThreshold }

InitShamir ==
  /\ currentEpoch = 0
  /\ nodes = initializeNodes
  /\ lastOp = "new"
  /\ lastSecret = <<>>
  /\ holders = <<>>
  /\ result = Void
  /\ outcome = ""
  /\ preEpoch = 0
  /\ preHeld = 0
  /\ run = "other"
  /\ shamir \in ShamirInputs
  /\ election = [pc |-> "none"]
  /\ nodeCall = [op |-> "none"]
  /\ app = [pc |-> "none"]
  /\ async = [pc |-> "none"]
  /\ logs = <<>>
  /\ trace = NoTrace

simulatorVars == <<currentEpoch, nodes, lastOp, lastSecret, holders, result,
                   outcome, preEpoch, preHeld, run, trace>>

\* The simulator as constructed, untouched by the specifications of single
\* functions.
simulatorIdle ==
  /\ currentEpoch = 0
  /\ nodes = initializeNodes
  /\ lastOp = "new"
  /\ lastSecret = <<>>
  /\ holders = <<>>
  /\ result = Void
  /\ outcome = ""
  /\ preEpoch = 0
  /\ preHeld = 0
  /\ run = "other"
  /\ trace = NoTrace

\* The least and the greatest entry of a matrix of sub-shares.
Range(matrix) ==
  LET entries == { matrix[j][k] : j \in 1..Len(matrix), k \in 1..Len(matrix[1]) }
  IN  << CHOOSE lo \in entries : \A e \in entries : lo <= e,
         CHOOSE hi \in entries : \A e \in entries : hi >= e >>

\* The elements of `shares` at the indices in `indices`, in their order.
PickShares(shares, indices) ==
  LET at == SelectSeq([i \in 1..Len(shares) |-> i], LAMBDA i : i \in indices)
  IN  [k \in 1..Len(at) |-> shares[at[k]]]

\* The sequences of t pairwise distinct indices of 1..n.
Arrangements(n, t) ==
  { f \in [1..t -> 1..n] : \A a, b \in 1..t : a # b => f[a] # f[b] }

ShamirCreateShares ==
  /\ shamir.op = "input"
  /\ shamir' = [shamir EXCEPT
                  !.op = "createShares",
                  !.shares = createShares(shamir.secret, shamir.n, shamir.t,
                                          shamir.rnd)]
  /\ UNCHANGED <<simulatorVars, election, nodeCall, app, async, logs>>

\* reconstructSecret on a non-empty subset of the shares.
ShamirReconstruct ==
  /\ shamir.op \in {"createShares", "handover"}
  /\ \E indices \in SUBSET (1..Len(shamir.shares)) :
       /\ indices # {}
       /\ LET picked == PickShares(shamir.shares, indices)
          IN  shamir' = [shamir EXCEPT
                           !.op = IF shamir.op = "createShares"
                                  THEN "reconstruct" ELSE "reconstructNew",
                           !.picked = picked,
                           !.value = interpolateAtZero(picked),
                           !.text = reconstructSecret(picked)]
  /\ UNCHANGED <<simulatorVars, election, nodeCall, app, async, logs>>

\* One handover: the old holders `old` (t of the shares, in any order) each
\* create m sub-shares, and new holder k recombines the k-th of each.
ShamirHandover ==
  /\ shamir.op = "createShares"
  /\ \E old \in Arrangements(shamir.n, shamir.t),
        m \in shamir.t..MaxSeats,
        rnds \in [1..shamir.t -> SubShareTails(shamir.t)] :
       LET subShareMatrix ==
             [j \in 1..shamir.t |->
                createSubShares(shamir.shares[old[j]], m, shamir.t,
                                rnds[j]).subShares]
           oldSeatIndices == [j \in 1..shamir.t |-> shamir.shares[old[j]].x]
       IN  shamir' = [shamir EXCEPT
                        !.op = "handover",
                        !.subsRange = Range(subShareMatrix),
                        !.shares =
                           [k \in 1..m |->
                              computeNewShareFromSubShares(
                                k, [j \in 1..shamir.t |-> subShareMatrix[j][k]],
                                oldSeatIndices)]]
  /\ UNCHANGED <<simulatorVars, election, nodeCall, app, async, logs>>

NextShamir ==
  \/ ShamirCreateShares
  \/ ShamirReconstruct
  \/ ShamirHandover

SpecShamir == InitShamir /\ [][NextShamir]_vars

\* ------------------------------------------------------------------------
\* The field specification: modInverse and evaluatePolynomial applied to
\* inputs drawn from bounded sets.  shamir.op is the step taken last.
\* ------------------------------------------------------------------------
\* The moduli modInverse is called with: PRIME (line 150) and a composite.
FieldModuli == {PRIME, 12}

\* modInverse(a, m) for every a of 0..m.
ModInverseInputs ==
  UNION { { [op |-> "modInverseInput", a |-> a, m |-> m, result |-> 0,
             iterations |-> 0, threw |-> FALSE] : a \in 0..m }
          : m \in FieldModuli }

\* Coefficients: small ones, the largest field element, and values that are
\* not below PRIME (the encoding of a long secret).
EvaluateCoefs == {0, 3, 5, PRIME - 1, PRIME + 2, 16706}

\* evaluatePolynomial(coefficients, x)
EvaluateInputs ==
  { [op |-> "evaluateInput", coefficients |-> coefficients, x |-> x,
     result |-> 0] :
      coefficients \in UNION { [1..k -> EvaluateCoefs] : k \in 0..MaxCoefficients },
      x \in 0..MaxPoint }

\* The strings of the round trip: "" and the strings over NUL, "A" and DEL
\* up to MaxStringLength characters, and strings with characters of two and
\* three bytes, among them the byte order mark U+FEFF.
RoundTripStrings ==
  UNION { [1..k -> {0, 65, 127}] : k \in 0..MaxStringLength }
  \cup { <<233>>, <<65, 233>>, <<8364>>, <<65279>>, <<65533>> }

RoundTripInputs ==
  { [op |-> "roundTripInput", str |-> str, num |-> 0, text |-> <<>>] :
      str \in RoundTripStrings }

InitField ==
  /\ simulatorIdle
  /\ shamir \in ModInverseInputs \cup EvaluateInputs \cup RoundTripInputs
  /\ election = [pc |-> "none"]
  /\ nodeCall = [op |-> "none"]
  /\ app = [pc |-> "none"]
  /\ async = [pc |-> "none"]
  /\ logs = <<>>

\* modInverse has no throw statement: it returns whatever the loop leaves.
FieldModInverse ==
  /\ shamir.op = "modInverseInput"
  /\ shamir' = [shamir EXCEPT
                  !.op = "modInverse",
                  !.result = modInverse(shamir.a, shamir.m),
                  !.iterations = modInverseIterations(shamir.a, shamir.m),
                  !.threw = FALSE]
  /\ UNCHANGED <<simulatorVars, election, nodeCall, app, async, logs>>

FieldEvaluatePolynomial ==
  /\ shamir.op = "evaluateInput"
  /\ shamir' = [shamir EXCEPT
                  !.op = "evaluatePolynomial",
                  !.result = evaluatePolynomial(shamir.coefficients, shamir.x)]
  /\ UNCHANGED <<simulatorVars, election, nodeCall, app, async, logs>>

\* bigIntToString(stringToBigInt(str))
FieldRoundTrip ==
  /\ shamir.op = "roundTripInput"
  /\ shamir' = [shamir EXCEPT
                  !.op = "roundTrip",
                  !.num = stringToBigInt(shamir.str),
                  !.text = bigIntToString(stringToBigInt(shamir.str))]
  /\ UNCHANGED <<simulatorVars, election, nodeCall, app, async, logs>>

NextField ==
  \/ FieldModInverse
  \/ FieldEvaluatePolynomial
  \/ FieldRoundTrip

SpecField == InitField /\ [][NextField]_vars

\* ------------------------------------------------------------------------
\* The election specification: the election of startNewEpoch (lines 405-425)
\* one call at a time, so that the order of the calls can be observed.
\*   pc         the statement reached: "generate" (loop of line 406),
\*              "collect" (line 411), "nominate" (loop of line 418), "done"
\*   i          the node the loop is at
\*   values     randomValue of every node
\*   shares     share of every node
\*   generated  the nodes generateRandomValue has been called on
\*   allValues  the array of line 411, <<>> before it is built
\*   members    newHoldingMembers
\*   calls      the checkAndNominate calls made, each with its arguments, the
\*              value returned and the nodes that had generated by then
\* ------------------------------------------------------------------------
ElectionDraws == 0..MaxElectionDraw

\* The nodes before an election: new, or left by an earlier epoch with
\* election values and two shares.
ElectionStarts ==
  { [values |-> [i \in NodeIds |-> 0], shares |-> [i \in NodeIds |-> NoShare]],
    [values |-> [i \in NodeIds |-> totalNodes - i],
     shares |-> [i \in NodeIds |->
                   IF i <= nominatingSize THEN [x |-> i, y |-> 65] ELSE NoShare]] }

InitElection ==
  /\ simulatorIdle
  /\ shamir = [op |-> "none"]
  /\ nodeCall = [op |-> "none"]
  /\ app = [pc |-> "none"]
  /\ async = [pc |-> "none"]
  /\ logs = <<>>
  /\ \E start \in ElectionStarts :
       election = [pc |-> "generate", i |-> 1, values |-> start.values,
                   shares |-> start.shares, sharesAtStart |-> start.shares,
                   generated |-> {}, allValues |-> <<>>, members |-> <<>>,
                   calls |-> <<>>]

\* Faulty variant of afterGenerate: the values are collected after the first
\* node has drawn.
afterGenerateFirstOnly(i) == [pc |-> "collect", i |-> 1]

\* Where the loop of lines 406-408 continues after node i.
afterGenerate(i) ==
  IF i < totalNodes THEN [pc |-> "generate", i |-> i + 1]
  ELSE [pc |-> "collect", i |-> 1]

\* node.generateRandomValue() on node election.i
ElectionGenerate ==
  /\ election.pc = "generate"
  /\ \E draw \in ElectionDraws :
       election' = [election EXCEPT
                      !.values[election.i] = draw,
                      !.generated = @ \cup {election.i},
                      !.pc = afterGenerate(election.i).pc,
                      !.i = afterGenerate(election.i).i]
  /\ UNCHANGED <<simulatorVars, shamir, nodeCall, app, async, logs>>

\* const allValues = Array.from(this.nodes.values()).map(...)
ElectionCollect ==
  /\ election.pc = "collect"
  /\ election' = [election EXCEPT
                    !.allValues = [k \in 1..totalNodes |-> election.values[k]],
                    !.pc = "nominate",
                    !.i = 1]
  /\ UNCHANGED <<simulatorVars, shamir, nodeCall, app, async, logs>>

\* One turn of the loop of lines 418-425, on node election.i.
ElectionNominate ==
  /\ election.pc = "nominate"
  /\ LET id == election.i
         available == availableIds(nodeKeys, election.members)
     IN  \E r \in RandomIndices(Len(candidatesOf(id, available))) :
           LET nominated ==
                 checkAndNominate(id, election.values[id], election.allValues,
                                  nominatingSize, available, r)
           IN  election' =
                 [election EXCEPT
                    !.members = IF nominated # NoNominee
                                THEN Append(@, nominated) ELSE @,
                    !.calls = Append(@, [id |-> id,
                                         randomValue |-> election.values[id],
                                         allValues |-> election.allValues,
                                         available |-> available,
                                         generated |-> election.generated,
                                         returned |-> nominated]),
                    !.pc = IF id < totalNodes THEN "nominate" ELSE "done",
                    !.i = IF id < totalNodes THEN id + 1 ELSE id]
  /\ UNCHANGED <<simulatorVars, shamir, nodeCall, app, async, logs>>

NextElection ==
  \/ ElectionGenerate
  \/ ElectionCollect
  \/ ElectionNominate

SpecElection == InitElection /\ [][NextElection]_vars

\* ------------------------------------------------------------------------
\* The methods of Node and the handover, called through the public interface
\* of the simulator (getNode, getAllNodes) on the nodes of a custody.
\* ------------------------------------------------------------------------
\* The number of reset and transferShareTo calls made on the nodes before
\* the call examined.
MaxNodeCalls == 2

\* The node maps encryptSecret("A") leaves: the election values drawn, the
\* shares of createShares at the first holders.
CustodyNodes ==
  { distributeInitialShares(
      [i \in NodeIds |-> [NewNode EXCEPT !.randomValue = v]], holderIds,
      createShares(<<65>>, nominatingSize, threshold, rnd)) :
      v \in DrawSample,
      holderIds \in Arrangements(totalNodes, nominatingSize),
      rnd \in [1..(threshold - 1) -> CoefSample] }

InitNode ==
  /\ simulatorIdle
  /\ shamir = [op |-> "none"]
  /\ election = [pc |-> "none"]
  /\ app = [pc |-> "none"]
  /\ async = [pc |-> "none"]
  /\ logs = <<>>
  /\ \E ns \in CustodyNodes :
       nodeCall = [op |-> "new", step |-> 0, nodes |-> ns, before |-> ns]

NodeCallable ==
  /\ nodeCall.op \in {"new", "reset", "transferShareTo"}
  /\ nodeCall.step < MaxNodeCalls

\* getNode(id).reset()
NodeReset ==
  /\ NodeCallable
  /\ \E id \in NodeIds :
       nodeCall' = [op |-> "reset", step |-> nodeCall.step + 1,
                    nodes |-> [nodeCall.nodes EXCEPT ![id] = reset(@)],
                    before |-> nodeCall.nodes, id |-> id]
  /\ UNCHANGED <<simulatorVars, shamir, election, app, async, logs>>

\* getNode(source).transferShareTo(getNode(nextHolder))
NodeTransferShareTo ==
  /\ NodeCallable
  /\ \E source \in NodeIds, nextHolder \in NodeIds :
       LET call == transferShareTo(nodeCall.nodes, source, nextHolder)
       IN  nodeCall' = [op |-> "transferShareTo", step |-> nodeCall.step + 1,
                        nodes |-> call.nodes, before |-> nodeCall.nodes,
                        id |-> source, nextHolder |-> nextHolder,
                        returned |-> call.returned]
  /\ UNCHANGED <<simulatorVars, shamir, election, app, async, logs>>

\* getNode(id).createSubShares(numNewSeats, t); the method assigns no field
\* of the node.
NodeCreateSubShares ==
  /\ nodeCall.op = "new"
  /\ \E id \in NodeIds, numNewSeats \in 1..MaxSeats, t \in 1..MaxThreshold :
       \E rnd \in [1..(t - 1) -> CoefSample] :
         LET call == createSubShares(nodeCall.nodes[id].share, numNewSeats,
                                     t, rnd)
         IN  nodeCall' = [op |-> "createSubShares", step |-> nodeCall.step,
                          nodes |-> nodeCall.nodes, before |-> nodeCall.nodes,
                          id |-> id, numNewSeats |-> numNewSeats, t |-> t,
                          rnd |-> rnd, threw |-> call.threw,
                          subShares |-> call.subShares]
  /\ UNCHANGED <<simulatorVars, shamir, election, app, async, logs>>

\* getNode(id).computeNewShareFromSubShares(seatIndex, subShareValues,
\* oldSeatIndices)
NodeComputeNewShare ==
  /\ nodeCall.op = "new"
  /\ \E id \in NodeIds, seatIndex \in 1..MaxSeats, len \in 1..totalNodes :
       \E oldSeatIndices \in Arrangements(totalNodes, len),
          subShareValues \in [1..len -> CoefSample] :
         nodeCall' = [op |-> "computeNewShareFromSubShares",
                      step |-> nodeCall.step,
                      nodes |-> [nodeCall.nodes EXCEPT ![id].share =
                                   computeNewShareFromSubShares(
                                     seatIndex, subShareValues,
                                     oldSeatIndices)],
                      before |-> nodeCall.nodes, id |-> id,
                      seatIndex |-> seatIndex,
                      subShareValues |-> subShareValues,
                      oldSeatIndices |-> oldSeatIndices]
  /\ UNCHANGED <<simulatorVars, shamir, election, app, async, logs>>

\* The handover keepAlive() runs on the nodes as they are, for the holders
\* an election can name.
NodeTransferShares ==
  /\ nodeCall.op \in {"new", "reset", "transferShareTo"}
  /\ \E m \in nominatingSize..totalNodes :
       \E newHolderIds \in Arrangements(totalNodes, m),
          rnds \in SubShareDraws(Cardinality(HeldIds(nodeCall.nodes))) :
         LET after == transferShares(nodeCall.nodes, newHolderIds, rnds)
         IN  nodeCall' = [op |-> "transferShares", step |-> nodeCall.step,
                          nodes |-> after.nodes, before |-> nodeCall.nodes,
                          newHolderIds |-> newHolderIds, log |-> after.log]
  /\ UNCHANGED <<simulatorVars, shamir, election, app, async, logs>>

\* The earlier transferShares (src/unnamed/part_000), which hands the old
\* shares on as they are.
\* Faulty variant of firstHolding: the last old node with a share is taken.
lastHolding(oldNodes) ==
  IF HeldIds(oldNodes) = {} THEN 0
  ELSE CHOOSE id \in HeldIds(oldNodes) : \A other \in HeldIds(oldNodes) : other <= id

\* The inner loop: the first old node, in the order of the map, whose
\* transferShareTo returns true; 0 when none does.
firstHolding(oldNodes) ==
  IF HeldIds(oldNodes) = {} THEN 0
  ELSE CHOOSE id \in HeldIds(oldNodes) : \A other \in HeldIds(oldNodes) : id <= other

RECURSIVE transferLoop(_, _, _, _, _)
transferLoop(oldNodes, newNodes, newHolderIds, k, transferCount) ==
  IF k > Len(newHolderIds)
  THEN [nodes |-> newNodes, oldNodes |-> oldNodes,
        transferCount |-> transferCount]
  ELSE IF newHolderIds[k] \notin NodeIds \/ firstHolding(oldNodes) = 0
  THEN transferLoop(oldNodes, newNodes, newHolderIds, k + 1, transferCount)
  ELSE LET oldNode == firstHolding(oldNodes)
           shareCopy == oldNodes[oldNode].share
       IN  transferLoop([oldNodes EXCEPT ![oldNode].share = NoShare],
                        [newNodes EXCEPT ![newHolderIds[k]] =
                           receiveShare(@, shareCopy)],
                        newHolderIds, k + 1, transferCount + 1)

\* The node map afterwards, the old nodes, and the number logged.
transferSharesEarlier(ns, newHolderIds) ==
  transferLoop(ns, initializeNodes, newHolderIds, 1, 0)

\* The earlier handover on the nodes as they are, for m new holders.
NodeTransferSharesEarlier ==
  /\ nodeCall.op \in {"new", "reset", "transferShareTo"}
  /\ \E m \in 1..totalNodes :
       \E newHolderIds \in Arrangements(totalNodes, m) :
         LET after == transferSharesEarlier(nodeCall.nodes, newHolderIds)
         IN  nodeCall' = [op |-> "transferSharesEarlier",
                          step |-> nodeCall.step,
                          nodes |-> after.nodes, before |-> nodeCall.nodes,
                          newHolderIds |-> newHolderIds,
                          transferCount |-> after.transferCount]
  /\ UNCHANGED <<simulatorVars, shamir, election, app, async, logs>>

NextNode ==
  \/ NodeReset
  \/ NodeTransferShareTo
  \/ NodeCreateSubShares
  \/ NodeComputeNewShare
  \/ NodeTransferShares
  \/ NodeTransferSharesEarlier

SpecNode == InitNode /\ [][NextNode]_vars

\* ------------------------------------------------------------------------
\* The application driver (App.vue).  Every action is one task of the event
\* loop: a click handler, a timer callback, or the continuation of an await
\* once the awaited call of the simulator has settled.
\*   isEncrypted, timeRemaining, keepAliveFlag   the variables of the script
\*   interval   intervalId names a running interval
\*   timeouts   the setTimeout callbacks of line 90 not yet run
\*   pending    the calls of the simulator issued and not yet settled
\*   calls      the number of calls issued
\*   overlap    a call was issued while another was pending
\*   op         the task that ran last
\*   pressed    the presses of the keep-alive button since the last expiry
\*   last       at the last expiry: the presses since the one before, the
\*              calls issued before it, and the call it issued
\* ------------------------------------------------------------------------
totalTime == 10

InitApp ==
  /\ simulatorIdle
  /\ shamir = [op |-> "none"]
  /\ election = [pc |-> "none"]
  /\ nodeCall = [op |-> "none"]
  /\ async = [pc |-> "none"]
  /\ logs = <<>>
  /\ app = [pc |-> "mounted", isEncrypted |-> FALSE,
            timeRemaining |-> totalTime, interval |-> FALSE, timeouts |-> 0,
            keepAliveFlag |-> FALSE, pending |-> <<>>, calls |-> 0,
            overlap |-> FALSE, op |-> "mounted", pressed |-> 0,
            last |-> [pressed |-> 0, calls |-> 0, issued |-> ""]]

\* Faulty variant of encryptButtonShown: the button has no v-if.
encryptButtonAlwaysShown(a) == TRUE

\* <button v-if="!isEncrypted" @click="encryptSecret">
encryptButtonShown(a) == ~a.isEncrypted

\* <button v-else @click="keepAlive">
keepAliveButtonShown(a) == a.isEncrypted

\* The state after `await ecpss.<call>(...)` has been reached.
issue(a, call) ==
  [a EXCEPT !.pending = Append(@, call),
            !.calls = @ + 1,
            !.overlap = @ \/ a.pending # <<>>]

\* A click that leads to a call is taken while that call and the
\* reconstruction that ends the custody are within MaxCalls.
CanIssue == app.calls + 2 <= MaxCalls /\ Len(app.pending) < MaxPending

\* pending without its first occurrence of call
RECURSIVE settle(_, _)
settle(pending, call) ==
  IF pending = <<>> THEN <<>>
  ELSE IF Head(pending) = call THEN Tail(pending)
  ELSE <<Head(pending)>> \o settle(Tail(pending), call)

Pending(call) == \E i \in 1..Len(app.pending) : app.pending[i] = call

\* startTimer(): an interval that is running is cleared, a new one is set.
startTimer(a) == [a EXCEPT !.interval = TRUE]

\* A click on the encrypt button: encryptSecret() up to its await.  The
\* button is disabled, and the function returns, when the input is blank.
AppClickEncrypt ==
  /\ app.pc = "mounted"
  /\ encryptButtonShown(app)
  /\ CanIssue
  /\ \E blank \in BOOLEAN :
       app' = IF blank THEN [app EXCEPT !.op = "clickEncryptBlank"]
              ELSE issue([app EXCEPT !.isEncrypted = TRUE,
                                     !.timeRemaining = totalTime,
                                     !.op = "clickEncrypt"],
                         "encryptSecret")
  /\ UNCHANGED <<simulatorVars, shamir, election, nodeCall, async, logs>>

\* encryptSecret() after its await.
AppEncryptSettled ==
  /\ Pending("encryptSecret")
  /\ app' = startTimer([app EXCEPT !.pending = settle(@, "encryptSecret"),
                                   !.op = "encryptSettled"])
  /\ UNCHANGED <<simulatorVars, shamir, election, nodeCall, async, logs>>

\* A click on the keep-alive button.
AppClickKeepAlive ==
  /\ app.pc = "mounted"
  /\ keepAliveButtonShown(app)
  /\ app.pressed < MaxPresses
  /\ app.keepAliveFlag \/ app.calls + 2 <= MaxCalls
  /\ app' = [app EXCEPT !.keepAliveFlag = TRUE, !.pressed = @ + 1,
                        !.op = "clickKeepAlive"]
  /\ UNCHANGED <<simulatorVars, shamir, election, nodeCall, async, logs>>

\* The callback of setInterval.
AppIntervalTick ==
  /\ app.interval
  /\ LET remaining == IF app.timeRemaining > 0 THEN app.timeRemaining - 1
                      ELSE app.timeRemaining
     IN  app' = IF remaining = 0
                THEN [app EXCEPT !.timeRemaining = remaining,
                                 !.interval = FALSE,
                                 !.timeouts = @ + 1,
                                 !.op = "intervalTick"]
                ELSE [app EXCEPT !.timeRemaining = remaining,
                                 !.op = "intervalTick"]
  /\ UNCHANGED <<simulatorVars, shamir, election, nodeCall, async, logs>>

\* Faulty variant of handleTimerExpiry(): the keep-alive flag is not looked
\* at and the secret is revealed.
handleTimerExpiryIgnoringFlag(a) ==
  issue([a EXCEPT !.interval = FALSE], "reconstructSecret")

\* handleTimerExpiry() up to its await, in its second branch through
\* revealSecret() up to its await.
handleTimerExpiry(a) ==
  IF a.keepAliveFlag
  THEN issue([a EXCEPT !.keepAliveFlag = FALSE,
                       !.timeRemaining = totalTime],
             "keepAlive")
  ELSE issue([a EXCEPT !.interval = FALSE], "reconstructSecret")

\* The callback of setTimeout.
AppTimerExpiry ==
  /\ app.timeouts > 0
  /\ LET handled == handleTimerExpiry([app EXCEPT !.timeouts = @ - 1])
     IN  app' = [handled EXCEPT
                   !.op = "timerExpiry",
                   !.pressed = 0,
                   !.last = [pressed |-> app.pressed,
                             calls |-> app.calls,
                             issued |-> handled.pending[Len(handled.pending)]]]
  /\ UNCHANGED <<simulatorVars, shamir, election, nodeCall, async, logs>>

\* handleTimerExpiry() after `await ecpss.keepAlive()`.
AppKeepAliveSettled ==
  /\ Pending("keepAlive")
  /\ app' = startTimer([app EXCEPT !.pending = settle(@, "keepAlive"),
                                   !.op = "keepAliveSettled"])
  /\ UNCHANGED <<simulatorVars, shamir, election, nodeCall, async, logs>>

\* revealSecret() after `await ecpss.reconstructSecret()`.
AppReconstructSettled ==
  /\ Pending("reconstructSecret")
  /\ app' = [app EXCEPT !.pending = settle(@, "reconstructSecret"),
                        !.op = "reconstructSettled",
                        !.isEncrypted = FALSE,
                        !.timeRemaining = totalTime,
                        !.keepAliveFlag = FALSE]
  /\ UNCHANGED <<simulatorVars, shamir, election, nodeCall, async, logs>>

\* onUnmounted: the interval is cleared; the buttons are gone.
AppUnmounted ==
  /\ app.pc = "mounted"
  /\ app' = [app EXCEPT !.pc = "unmounted", !.interval = FALSE,
                        !.op = "unmounted"]
  /\ UNCHANGED <<simulatorVars, shamir, election, nodeCall, async, logs>>

NextApp ==
  \/ AppClickEncrypt
  \/ AppEncryptSettled
  \/ AppClickKeepAlive
  \/ AppIntervalTick
  \/ AppTimerExpiry
  \/ AppKeepAliveSettled
  \/ AppReconstructSettled
  \/ AppUnmounted

SpecApp == InitApp /\ [][NextApp]_vars

\* The driver on the event loop, while the component stays mounted.  The
\* calls of the simulator settle in microtasks (the simulator awaits only its
\* own async functions), which run before the next task: a click or a timer
\* callback runs when no call is pending.  Timers that are set fire.
TaskClickEncrypt == app.pending = <<>> /\ AppClickEncrypt

TaskClickKeepAlive == app.pending = <<>> /\ AppClickKeepAlive

TaskIntervalTick == app.pending = <<>> /\ AppIntervalTick

TaskTimerExpiry == app.pending = <<>> /\ AppTimerExpiry

AppMicrotask ==
  \/ AppEncryptSettled
  \/ AppKeepAliveSettled
  \/ AppReconstructSettled

NextAppTimer ==
  \/ TaskClickEncrypt
  \/ TaskClickKeepAlive
  \/ TaskIntervalTick
  \/ TaskTimerExpiry
  \/ AppMicrotask

SpecAppTimer ==
  /\ InitApp
  /\ [][NextAppTimer]_vars
  /\ WF_vars(TaskIntervalTick)
  /\ WF_vars(TaskTimerExpiry)
  /\ WF_vars(AppMicrotask)

\* ------------------------------------------------------------------------
\* The triggers as async functions.  A function runs statement by statement
\* until it returns; `await f()` runs f up to its return or first suspension
\* and then suspends the caller, whose continuation runs in a later task.
\* Calls of the triggers are started whenever no code is running, also while
\* earlier calls are suspended.
\*   sim      currentEpoch; custody: some node holds a share; sharesEpoch:
\*            the epoch the shares held were written in; nodes: the node map
\*            is "whole", "cleared" (line 487) or "new" (lines 488-490)
\*   calls    per call: the trigger, the chain of its frames (function, next
\*            statement), its status, whether it has been suspended, and the
\*            number of writes it made after having been suspended
\*   running  the call that is running, 0 when none is
\*   sawPartial  a task began on a state that a call had left half-written
\* ------------------------------------------------------------------------
Log == [kind |-> "log", arg |-> ""]
Compute == [kind |-> "compute", arg |-> ""]
Write(target) == [kind |-> "write", arg |-> target]
Await(fn) == [kind |-> "await", arg |-> fn]
ReturnIfNoShares == [kind |-> "returnIfNoShares", arg |-> ""]

\* Faulty variant of body: transferShares waits between the creation of the
\* new nodes and the recombination.
bodyWithDelayedRecombination(fn) ==
  CASE fn = "encryptSecret" ->
         <<Log, Log, Log, Compute, Log, Await("startNewEpochInitial"), Log>>
    [] fn = "keepAlive" -> <<Log, Await("startNewEpochHandover")>>
    [] fn = "reconstructSecret" ->
         <<Log, Compute, Log, Compute, Log, Write("currentEpoch = 0"),
           Write("resetAllNodes")>>
    [] fn = "startNewEpochInitial" ->
         <<Write("currentEpoch++"), Write("generateRandomValue"), Compute,
           Log, Await("distributeInitialShares")>>
    [] fn = "startNewEpochHandover" ->
         <<Write("currentEpoch++"), Write("generateRandomValue"), Compute,
           Log, Await("transferShares")>>
    [] fn = "distributeInitialShares" -> <<Write("receiveShare"), Log>>
    [] fn = "transferShares" ->
         <<Log, ReturnIfNoShares, Compute, Write("nodes.clear"),
           Write("nodes.set"), Await("delay"),
           Write("computeNewShareFromSubShares"), Log>>
    [] OTHER -> <<>>

\* The statements of each function, in the order of the source: the writes
\* to the simulator's state, the awaits, and what lies between them.
body(fn) ==
  CASE fn = "encryptSecret" ->
         <<Log, Log, Log, Compute, Log, Await("startNewEpochInitial"), Log>>
    [] fn = "keepAlive" -> <<Log, Await("startNewEpochHandover")>>
    [] fn = "reconstructSecret" ->
         <<Log, Compute, Log, Compute, Log, Write("currentEpoch = 0"),
           Write("resetAllNodes")>>
    [] fn = "startNewEpochInitial" ->
         <<Write("currentEpoch++"), Write("generateRandomValue"), Compute,
           Log, Await("distributeInitialShares")>>
    [] fn = "startNewEpochHandover" ->
         <<Write("currentEpoch++"), Write("generateRandomValue"), Compute,
           Log, Await("transferShares")>>
    [] fn = "distributeInitialShares" -> <<Write("receiveShare"), Log>>
    [] fn = "transferShares" ->
         <<Log, ReturnIfNoShares, Compute, Write("nodes.clear"),
           Write("nodes.set"), Write("computeNewShareFromSubShares"), Log>>
    [] OTHER -> <<>>

\* The effect of a write on the state of the simulator.
write(sim, target) ==
  CASE target = "currentEpoch++" ->
         [sim EXCEPT !.currentEpoch = @ + 1]
    [] target = "currentEpoch = 0" -> [sim EXCEPT !.currentEpoch = 0]
    [] target = "receiveShare" ->
         [sim EXCEPT !.custody = TRUE, !.sharesEpoch = sim.currentEpoch]
    [] target = "nodes.clear" ->
         [sim EXCEPT !.nodes = "cleared", !.custody = FALSE]
    [] target = "nodes.set" -> [sim EXCEPT !.nodes = "new"]
    [] target = "computeNewShareFromSubShares" ->
         [sim EXCEPT !.nodes = "whole", !.custody = TRUE,
                     !.sharesEpoch = sim.currentEpoch]
    [] target = "resetAllNodes" ->
         [sim EXCEPT !.custody = FALSE, !.sharesEpoch = 0]
    [] OTHER -> sim

\* No trigger has left the state half-written: the node map is whole and the
\* shares held are those of the current epoch.
settled(sim) ==
  /\ sim.nodes = "whole"
  /\ sim.custody => sim.sharesEpoch = sim.currentEpoch

Triggers == {"encryptSecret", "keepAlive", "reconstructSecret"}

InitAsync ==
  /\ simulatorIdle
  /\ shamir = [op |-> "none"]
  /\ election = [pc |-> "none"]
  /\ nodeCall = [op |-> "none"]
  /\ app = [pc |-> "none"]
  /\ logs = <<>>
  /\ async = [pc |-> "constructed",
              sim |-> [currentEpoch |-> 0, custody |-> FALSE,
                       sharesEpoch |-> 0, nodes |-> "whole"],
              calls |-> <<>>, running |-> 0, sawPartial |-> FALSE]

\* A trigger is called: its first frame is entered.
AsyncStart ==
  /\ async.pc # "none"
  /\ async.running = 0
  /\ Len(async.calls) < MaxAsyncCalls
  /\ \E trigger \in Triggers :
       async' = [async EXCEPT
                   !.calls = Append(@, [trigger |-> trigger,
                                        chain |-> <<[fn |-> trigger, pc |-> 1]>>,
                                        status |-> "running",
                                        suspended |-> FALSE,
                                        lateWrites |-> 0]),
                   !.running = Len(async.calls) + 1,
                   !.sawPartial = @ \/ ~settled(async.sim)]
  /\ UNCHANGED <<simulatorVars, shamir, election, nodeCall, app, logs>>

\* The continuation of a suspended call runs.
AsyncResume ==
  /\ async.pc # "none"
  /\ async.running = 0
  /\ \E c \in 1..Len(async.calls) :
       /\ async.calls[c].status = "suspended"
       /\ async' = [async EXCEPT
                      !.calls[c].status = "running",
                      !.running = c,
                      !.sawPartial = @ \/ ~settled(async.sim)]
  /\ UNCHANGED <<simulatorVars, shamir, election, nodeCall, app, logs>>

\* The next statement of the running call, or the return of its innermost
\* frame: the call is over when that was its first frame, and is suspended
\* at the await of the frame below otherwise.
AsyncStep ==
  /\ async.pc # "none"
  /\ async.running # 0
  /\ LET c == async.running
         call == async.calls[c]
         depth == Len(call.chain)
         frame == call.chain[depth]
         statements == body(frame.fn)
     IN  IF frame.pc > Len(statements)
         THEN async' = [async EXCEPT
                          !.calls[c].chain = SubSeq(@, 1, depth - 1),
                          !.calls[c].status =
                             IF depth = 1 THEN "done" ELSE "suspended",
                          !.calls[c].suspended = @ \/ depth > 1,
                          !.running = 0]
         ELSE LET statement == statements[frame.pc]
              IN  CASE statement.kind = "write" ->
                         async' = [async EXCEPT
                                     !.sim = write(@, statement.arg),
                                     !.calls[c].chain[depth].pc = @ + 1,
                                     !.calls[c].lateWrites =
                                        IF call.suspended THEN @ + 1 ELSE @]
                    [] statement.kind = "await" ->
                         async' = [async EXCEPT
                                     !.calls[c].chain =
                                        Append([@ EXCEPT ![depth].pc = @ + 1],
                                               [fn |-> statement.arg, pc |-> 1])]
                    [] statement.kind = "returnIfNoShares" ->
                         async' = [async EXCEPT
                                     !.calls[c].chain[depth].pc =
                                        IF async.sim.custody THEN @ + 1
                                        ELSE Len(statements) + 1]
                    [] OTHER ->
                         async' = [async EXCEPT
                                     !.calls[c].chain[depth].pc = @ + 1]
  /\ UNCHANGED <<simulatorVars, shamir, election, nodeCall, app, logs>>

NextAsync ==
  \/ AsyncStart
  \/ AsyncResume
  \/ AsyncStep

SpecAsync == InitAsync /\ [][NextAsync]_vars

\* ------------------------------------------------------------------------
\* TerminalConsole.vue: the log list.
\*   list  logs.value
\*   all   every entry added since the list was last cleared
\*   op    the function called last
\* ------------------------------------------------------------------------
\* maxLogs is 100 in the program.
maxLogs == 3

\* The entries added: message and type; the timestamp is the time of the
\* call and is left out.
LogEntries ==
  { [message |-> message, type |-> type] :
      message \in {"a", "b"}, type \in {"info", "error"} }

\* Faulty variant of addLog: the entry just pushed is the one dropped.
addLogDroppingNewest(list, entry) ==
  LET pushed == Append(list, entry)
  IN  IF Len(pushed) > maxLogs THEN SubSeq(pushed, 1, Len(pushed) - 1)
      ELSE pushed

\* logs.value.push(entry); if (logs.value.length > maxLogs) logs.value.shift()
addLog(list, entry) ==
  LET pushed == Append(list, entry)
  IN  IF Len(pushed) > maxLogs THEN Tail(pushed) ELSE pushed

\* logs.value = []
clearLogs == <<>>

InitConsole ==
  /\ simulatorIdle
  /\ shamir = [op |-> "none"]
  /\ election = [pc |-> "none"]
  /\ nodeCall = [op |-> "none"]
  /\ app = [pc |-> "none"]
  /\ async = [pc |-> "none"]
  /\ logs = [list |-> <<>>, all |-> <<>>, op |-> "mounted"]

ConsoleAddLog ==
  /\ logs # <<>>
  /\ Len(logs.all) < MaxLogged
  /\ \E entry \in LogEntries :
       logs' = [list |-> addLog(logs.list, entry),
                all |-> Append(logs.all, entry),
                op |-> "addLog"]
  /\ UNCHANGED <<simulatorVars, shamir, election, nodeCall, app, async>>

ConsoleClearLogs ==
  /\ logs # <<>>
  /\ logs' = [list |-> clearLogs, all |-> <<>>, op |-> "clearLogs"]
  /\ UNCHANGED <<simulatorVars, shamir, election, nodeCall, app, async>>

NextConsole ==
  \/ ConsoleAddLog
  \/ ConsoleClearLogs

SpecConsole == InitConsole /\ [][NextConsole]_vars

\* ------------------------------------------------------------------------
\* Properties
\* ------------------------------------------------------------------------
\* str without its leading NUL characters.
RECURSIVE StripLeadingNul(_)
StripLeadingNul(str) ==
  IF str # <<>> /\ Head(str) = 0 THEN StripLeadingNul(Tail(str)) ELSE str

\* The encoding of the secret is a non-zero field element.
InField(secret) == stringToBigInt(secret) \in 1..(PRIME - 1)

C4_InsufficiencyAlways ==
  (/\ shamir.op = "reconstruct"
   /\ shamir.t >= 2
   /\ Len(shamir.picked) = shamir.t - 1)
  => shamir.value # stringToBigInt(shamir.secret)

\* C4, amended: the value differs from the encoded secret (and from its
\* residue mod P) whenever the last coefficient drawn by createShares, the
\* one of x^(threshold - 1), is not 0.
C4_Insufficiency ==
  (/\ shamir.op = "reconstruct"
   /\ shamir.t >= 2
   /\ Len(shamir.picked) = shamir.t - 1
   /\ shamir.rnd[shamir.t - 1] # 0)
  => /\ shamir.value # stringToBigInt(shamir.secret)
     /\ shamir.value # stringToBigInt(shamir.secret) % PRIME

C4_Witness ==
  /\ shamir.op = "reconstruct"
  /\ shamir.t = 3
  /\ Len(shamir.picked) = 2
  /\ shamir.rnd[2] = 1
  /\ InField(shamir.secret)
  /\ shamir.value # stringToBigInt(shamir.secret)

C5_ReconstructionOutcome ==
  lastOp = "reconstructSecret"
  => /\ (result.kind = "string") = (preHeld >= threshold)
     /\ (preHeld >= threshold
           => outcome = "Secret successfully reconstructed")
     /\ (preHeld < threshold
           => result = Null /\ outcome = "Not enough shares")

C5_Witness ==
  /\ lastOp = "reconstructSecret"
  /\ preEpoch = 1
  /\ preHeld < threshold
  /\ result = Null

\* C6: after reconstructSecret() returns, successful or not and from any
\* state, the epoch counter is 0 and every node of the node map holds no
\* share and has election value 0.
C6_ResetOnReconstruction ==
  lastOp = "reconstructSecret"
  => /\ currentEpoch = 0
     /\ \A i \in NodeIds : nodes[i].share = NoShare /\ nodes[i].randomValue = 0

\* A handover to three holders, then reconstructSecret().
C6_Witness ==
  /\ lastOp = "reconstructSecret"
  /\ preEpoch = 2
  /\ preHeld > nominatingSize
  /\ result.kind = "string"
  /\ currentEpoch = 0

\* C7: keepAlive() called while no node holds a share is a no-op: it logs a
\* warning, the epoch counter keeps its value and no node acquires a share.
C7_KeepAliveNoOp ==
  (lastOp = "keepAlive" /\ preHeld = 0)
  => /\ outcome = "No shares to transfer"
     /\ currentEpoch = preEpoch
     /\ HeldIds(nodes) = {}

\* String.prototype.trim leaves nothing: every character is white space.
IsBlank(str) == \A i \in 1..Len(str) : str[i] \in {9, 10, 11, 12, 13, 32}

\* C8: encryptSecret(secret) fails with EmptySecret when the secret is empty
\* or only white space, leaving the epoch counter and the shares as they
\* were; for every other secret it succeeds.
C8_EmptySecretRejected ==
  lastOp = "encryptSecret"
  => IF IsBlank(lastSecret)
     THEN /\ outcome = "EmptySecret"
          /\ currentEpoch = preEpoch
          /\ Cardinality(HeldIds(nodes)) = preHeld
     ELSE /\ outcome = "Secret encrypted and first epoch started"
          /\ currentEpoch = preEpoch + 1

Min(a, b) == IF a < b THEN a ELSE b

\* C9: after encryptSecret(s) called from Idle the epoch counter is 1 and,
\* with h_1..h_m the holders in election order, h_i holds exactly the share
\* with x = i of the nominatingSize shares created, for every
\* i <= min(m, nominatingSize); every other node holds no share.
C9_InitialDistribution ==
  (lastOp = "encryptSecret" /\ preEpoch = 0 /\ preHeld = 0)
  => /\ currentEpoch = 1
     /\ \E rnd \in [1..(threshold - 1) -> EpochCoefs] :
          LET created == createShares(lastSecret, nominatingSize, threshold,
                                      rnd)
              given == Min(Len(holders), nominatingSize)
          IN  /\ \A i \in 1..given :
                   /\ nodes[holders[i]].share = created[i]
                   /\ nodes[holders[i]].share.x = i
              /\ \A id \in NodeIds :
                   (\A i \in 1..given : holders[i] # id)
                   => nodes[id].share = NoShare

\* More holders than shares: the last holder is left without a share.
C9_Witness ==
  /\ lastOp = "encryptSecret"
  /\ preEpoch = 0
  /\ preHeld = 0
  /\ Len(holders) > nominatingSize
  /\ nodes[holders[1]].share.x = 1
  /\ nodes[holders[1]].share.y # stringToBigInt(lastSecret)
  /\ nodes[holders[Len(holders)]].share = NoShare

\* C10: keepAlive() called with shares in custody at epoch k ends at epoch
\* k + 1; the epoch counter changes only by +1, once per encryptSecret or
\* successful keepAlive, or by being reset to 0 in reconstructSecret, and is
\* never negative.
C10_EpochTransitions ==
  /\ currentEpoch >= 0
  /\ (lastOp = "keepAlive" /\ preHeld > 0 => currentEpoch = preEpoch + 1)
  /\ (lastOp = "reconstructSecret" => currentEpoch = 0)
  /\ (currentEpoch # preEpoch /\ lastOp # "reconstructSecret"
        => /\ currentEpoch = preEpoch + 1
           /\ \/ lastOp = "encryptSecret"
              \/ lastOp = "keepAlive" /\ preHeld > 0)

\* C13: every y of a share returned by createShares, every sub-share
\* returned by createSubShares, every share stored by
\* computeNewShareFromSubShares and the value reconstructSecret decodes lies
\* in [0, P), for every input, secrets whose encoding is not below P and
\* negative intermediate residues included.
C13_FieldRange ==
  /\ shamir.op \in {"createShares", "reconstruct", "handover", "reconstructNew"}
       => \A i \in 1..Len(shamir.shares) : shamir.shares[i].y \in 0..(PRIME - 1)
  /\ shamir.op \in {"handover", "reconstructNew"}
       => /\ shamir.subsRange[1] \in 0..(PRIME - 1)
          /\ shamir.subsRange[2] \in 0..(PRIME - 1)
  /\ shamir.op \in {"reconstruct", "reconstructNew"}
       => shamir.value \in 0..(PRIME - 1)

\* "AB" encodes to 16706 >= P; after a handover three shares are interpolated
\* through a negative denominator to 16706 mod P.
C13_Witness ==
  /\ shamir.op = "reconstructNew"
  /\ shamir.secret = <<65, 66>>
  /\ stringToBigInt(shamir.secret) >= PRIME
  /\ Len(shamir.picked) = 3
  /\ lagrangeLoop([k \in 1..3 |-> shamir.picked[k].x], 2, 1, 1, 1)[2] < 0
  /\ shamir.subsRange[2] > shamir.subsRange[1]
  /\ shamir.value = 16706 % PRIME

\* The number of binary digits of n.
RECURSIVE BitLength(_)
BitLength(n) == IF n = 0 THEN 0 ELSE 1 + BitLength(n \div 2)

\* C14: for every a in [1, P), modInverse(a, P) returns r in [0, P) with
\* (a * r) mod P = 1, and the loop of the extended Euclidean algorithm
\* terminates (within twice the number of binary digits of P iterations).
C14_ModInverse ==
  (/\ shamir.op = "modInverse"
   /\ shamir.m = PRIME
   /\ shamir.a \in 1..(PRIME - 1))
  => /\ shamir.result \in 0..(PRIME - 1)
     /\ (shamir.a * shamir.result) % PRIME = 1
     /\ shamir.iterations \in 1..(2 * BitLength(PRIME))

\* An inverse that the loop leaves negative: 2 * 4095 = 8190 = -1 mod P, so
\* the inverse of 2 is P - 4095.
C14_Witness ==
  /\ shamir.op = "modInverse"
  /\ shamir.m = PRIME
  /\ shamir.a = 2
  /\ modInverseLoop(2, PRIME, 1, 0) < 0
  /\ shamir.result = 4096
  /\ shamir.iterations > 1

RECURSIVE GCD(_, _)
GCD(a, b) == IF b = 0 THEN a ELSE GCD(b, a % b)

\* C15: modInverse(a, m) fails with NotInvertible whenever gcd(a, m) # 1 (a = 0
\* or a multiple of m, for example) instead of returning a value.
C15_NotInvertible ==
  (shamir.op = "modInverse" /\ GCD(shamir.a, shamir.m) # 1) => shamir.threw

\* x^n, with x^0 = 1 for every x.
RECURSIVE Power(_, _)
Power(x, n) == IF n = 0 THEN 1 ELSE x * Power(x, n - 1)

\* (sum over i of coefficients[i] * x^(i - 1)), coefficients numbered from 1.
RECURSIVE DirectSum(_, _, _)
DirectSum(coefficients, x, i) ==
  IF i > Len(coefficients) THEN 0
  ELSE coefficients[i] * Power(x, i - 1) + DirectSum(coefficients, x, i + 1)

\* C16: evaluatePolynomial(coefficients, x) equals the direct evaluation
\* (sum of coefficients[i] * x^i) mod P for every coefficient sequence and
\* every x >= 0, and is 0 for the empty coefficient sequence.
C16_EvaluatePolynomial ==
  shamir.op = "evaluatePolynomial"
  => /\ shamir.result = DirectSum(shamir.coefficients, shamir.x, 1) % PRIME
     /\ (shamir.coefficients = <<>> => shamir.result = 0)

\* Coefficients [5, 3] at x = 2 give 11.
C16_Witness ==
  /\ shamir.op = "evaluatePolynomial"
  /\ shamir.coefficients = <<5, 3>>
  /\ shamir.x = 2
  /\ shamir.result = 11

\* C11: in every state reachable by any sequence of encryptSecret, keepAlive
\* and reconstructSecret calls, the epoch counter is 0 if and only if no node
\* holds a share.
C11_IdleMeansNoCustody == (currentEpoch = 0) <=> (HeldIds(nodes) = {})

\* C12: in every state reachable by any sequence of encryptSecret, keepAlive
\* and reconstructSecret calls, the shares held by the nodes have pairwise
\* distinct x values, each in 1..totalNodes and never 0 (a node has one share
\* field, so it holds at most one share).
C12_ShareIndexInvariant ==
  /\ \A i \in HeldIds(nodes) : nodes[i].share.x \in 1..totalNodes
  /\ \A i, j \in HeldIds(nodes) : i # j => nodes[i].share.x # nodes[j].share.x

\* C20: after keepAlive() called with shares in custody, with h_1..h_m the
\* newly elected holders in election order, node h_k holds a share with
\* x = k for every k in 1..m, and every node that was not elected holds no
\* share.
C20_HandoverAssignment ==
  (lastOp = "keepAlive" /\ preHeld > 0)
  => /\ \A k \in 1..Len(holders) :
          /\ nodes[holders[k]].share # NoShare
          /\ nodes[holders[k]].share.x = k
     /\ \A id \in NodeIds :
          (\A k \in 1..Len(holders) : holders[k] # id)
          => nodes[id].share = NoShare

\* A handover from two holders to two holders, one node left without a share.
C20_Witness ==
  /\ lastOp = "keepAlive"
  /\ preEpoch = 1
  /\ preHeld = nominatingSize
  /\ Len(holders) = nominatingSize
  /\ outcome = "new shares created via handover"
  /\ nodes[holders[2]].share.x = 2
  /\ \E id \in NodeIds : nodes[id].share = NoShare

\* C17: within an election, generateRandomValue has been called on every
\* node of the node map before checkAndNominate is called on any node, and
\* every checkAndNominate call of the election receives the same complete
\* vector of the draws.
C17_TwoPhaseElection ==
  election.pc \in {"generate", "collect", "nominate", "done"}
  => /\ election.calls # <<>> => election.generated = NodeIds
     /\ \A c \in 1..Len(election.calls) :
          /\ election.calls[c].generated = NodeIds
          /\ Len(election.calls[c].allValues) = totalNodes
          /\ \A n \in NodeIds :
               election.calls[c].allValues[n] = election.values[n]
          /\ election.calls[c].allValues = election.calls[1].allValues

\* An election over nodes that carried other values before it: every call
\* was given the new draws.
C17_Witness ==
  /\ election.pc = "done"
  /\ Len(election.calls) = totalNodes
  /\ election.values = <<2, 0, 1>>
  /\ election.sharesAtStart[1] # NoShare
  /\ election.calls[1].allValues = <<2, 0, 1>>
  /\ election.calls[totalNodes].allValues = <<2, 0, 1>>

\* The nodes of a finished election whose checkAndNominate call returned an
\* id.
Nominators ==
  { election.calls[c].id :
      c \in { k \in 1..Len(election.calls) :
                election.calls[k].returned # NoNominee } }

\* C18: in every election whose draws are pairwise distinct, exactly
\* committeeSize nodes are nominators (those whose draw is <= the
\* committeeSize-th smallest draw), and the holding-committee list is as long
\* as there are nominators.
C18_ElectionSize ==
  (/\ election.pc = "done"
   /\ \A a, b \in NodeIds : a # b => election.values[a] # election.values[b])
  => LET limit == sortValues(election.allValues)[nominatingSize]
     IN  /\ Nominators = { n \in NodeIds : election.values[n] <= limit }
         /\ Cardinality(Nominators) = nominatingSize
         /\ Len(election.members) = Cardinality(Nominators)

\* Draws 1, 2, 0: nodes 1 and 3 nominate, node 2 does not.
C18_Witness ==
  /\ election.pc = "done"
  /\ election.values = <<1, 2, 0>>
  /\ Nominators = {1, 3}
  /\ Len(election.members) = nominatingSize

\* C19: checkAndNominate returns none when the node's draw is greater than
\* the committeeSize-th smallest draw; otherwise it returns an id of
\* availableIds other than the node's own whenever there is one, and the
\* node's own id only when there is none; it never changes the node's share.
C19_NominationRule ==
  election.pc \in {"generate", "collect", "nominate", "done"}
  => /\ election.shares = election.sharesAtStart
     /\ \A c \in 1..Len(election.calls) :
          LET call == election.calls[c]
              limit == sortValues(call.allValues)[nominatingSize]
              others == { call.available[k] : k \in 1..Len(call.available) }
                          \ {call.id}
          IN  IF call.randomValue > limit THEN call.returned = NoNominee
              ELSE IF others # {} THEN call.returned \in others
              ELSE call.returned = call.id

\* All draws tie, nodes 1 and 2 nominate each other, and node 3, left with
\* itself alone, nominates itself; it holds its share as before.
C19_Witness ==
  /\ election.pc = "done"
  /\ election.sharesAtStart[1] # NoShare
  /\ election.shares[1] = [x |-> 1, y |-> 65]
  /\ election.calls[totalNodes].available = <<totalNodes>>
  /\ election.calls[totalNodes].returned = totalNodes
  /\ \E c \in 1..Len(election.calls) : election.calls[c].returned # NoNominee

\* C24: a secret whose big-endian encoding is not below P is not shared so
\* that a later reconstruction returns a different string: createShares makes
\* no shares of it, or reconstructSecret on at least `threshold` of them
\* returns the secret.
C24_OversizedSecretRejected ==
  (/\ shamir.op = "reconstruct"
   /\ stringToBigInt(shamir.secret) >= PRIME
   /\ Len(shamir.picked) >= shamir.t)
  => \/ shamir.shares = <<>>
     \/ shamir.text = shamir.secret

\* C26: during encryptSecret and during every keepAlive no sharing or
\* sub-sharing polynomial is evaluated at x = 0 and
\* ShamirSecretSharing.reconstructSecret is not called; it is called only
\* inside ECPSSSimulator.reconstructSecret().
C26_NoReconstructionOutsideTrigger ==
  /\ lastOp \in {"encryptSecret", "keepAlive"}
       => 0 \notin trace.points /\ trace.reconstructs = 0
  /\ trace.reconstructs > 0 => lastOp = "reconstructSecret"

\* A handover from two holders to three: the sub-sharing polynomials were
\* evaluated at 1, 2 and 3.
C26_Witness ==
  /\ lastOp = "keepAlive"
  /\ preHeld = nominatingSize
  /\ Len(holders) = totalNodes
  /\ trace.points = 1..totalNodes
  /\ trace.reconstructs = 0

\* C30: in ShamirSecretSharing.reconstructSecret, for every share list with
\* pairwise distinct x values in 1..N, in any order, every denominator passed
\* to modInverse lies in [1, P) and every numerator used lies in [0, P).
C30_LagrangeNormalisation ==
  shamir.op \in {"reconstruct", "reconstructNew"}
  => \A order \in Arrangements(Len(shamir.picked), Len(shamir.picked)) :
       LET xs == [k \in 1..Len(shamir.picked) |-> shamir.picked[order[k]].x]
       IN  \A i \in 1..Len(xs) :
             /\ lagrangeTerms(xs, i).denominator \in 1..(PRIME - 1)
             /\ lagrangeTerms(xs, i).numerator \in 0..(PRIME - 1)

\* Three shares: for the middle one the loop leaves a negative denominator,
\* (2 - 1) * (2 - 3), and P - 1 is passed to modInverse.
C30_Witness ==
  /\ shamir.op = "reconstruct"
  /\ Len(shamir.picked) = 3
  /\ shamir.picked[2].x = 2
  /\ lagrangeLoop(<<1, 2, 3>>, 2, 1, 1, 1)[2] < 0
  /\ lagrangeTerms(<<1, 2, 3>>, 2).denominator = PRIME - 1
  /\ lagrangeLoop(<<1, 2, 3>>, 3, 1, 1, 1)[1] > 0

\* C21: when the handover of keepAlive fails, in the creation of the
\* sub-shares or in the recombination, every node still holds the share it
\* held before the call.
C21_HandoverAtomicity ==
  (/\ nodeCall.op = "transferShares"
   /\ nodeCall.log \in {NoShareHeld, "TypeError"})
  => \A id \in NodeIds :
       nodeCall.nodes[id].share = nodeCall.before[id].share

\* C22: createSubShares on a node without a share throws the NoShareHeld
\* error, returns no sub-shares and leaves the nodes as they were; on a node
\* with a share it does not throw, and the handover, which asks only the
\* nodes that hold a share, never raises the error.
C22_NoShareHeld ==
  /\ nodeCall.op = "createSubShares"
       => /\ nodeCall.threw = (nodeCall.before[nodeCall.id].share = NoShare)
          /\ nodeCall.threw => nodeCall.subShares = <<>>
          /\ nodeCall.nodes = nodeCall.before
  /\ nodeCall.op = "transferShares" => nodeCall.log # NoShareHeld

C22_Witness ==
  /\ nodeCall.op = "createSubShares"
  /\ nodeCall.before[nodeCall.id].share = NoShare
  /\ nodeCall.threw
  /\ nodeCall.numNewSeats = totalNodes
  /\ HeldIds(nodeCall.nodes) # {}

\* C23: createSubShares(numNewSeats, threshold) on a node holding (x, y)
\* returns numNewSeats values, the k-th being G(k) mod P for the polynomial G
\* with the constant term y and the threshold - 1 coefficients drawn, whose
\* degree is at most threshold - 1 and G(0) = y; the node keeps its share.
C23_SubShares ==
  (/\ nodeCall.op = "createSubShares"
   /\ nodeCall.before[nodeCall.id].share # NoShare)
  => LET y == nodeCall.before[nodeCall.id].share.y
         G == <<y>> \o nodeCall.rnd
     IN  /\ ~nodeCall.threw
         /\ Len(nodeCall.subShares) = nodeCall.numNewSeats
         /\ \A k \in 1..nodeCall.numNewSeats :
              nodeCall.subShares[k] = DirectSum(G, k, 1) % PRIME
         /\ Len(G) = nodeCall.t
         /\ DirectSum(G, 0, 1) = y
         /\ nodeCall.nodes[nodeCall.id].share
              = nodeCall.before[nodeCall.id].share

C23_Witness ==
  /\ nodeCall.op = "createSubShares"
  /\ nodeCall.before[nodeCall.id].share # NoShare
  /\ nodeCall.t = 3
  /\ nodeCall.numNewSeats = 3
  /\ nodeCall.rnd = <<PRIME - 1, 1>>
  /\ nodeCall.subShares[3] # nodeCall.before[nodeCall.id].share.y

\* (product over m # j of (from - xs[m]))
RECURSIVE BasisProduct(_, _, _, _)
BasisProduct(xs, j, m, from) ==
  IF m > Len(xs) THEN 1
  ELSE IF m = j THEN BasisProduct(xs, j, m + 1, from)
  ELSE (from - xs[m]) * BasisProduct(xs, j, m + 1, from)

\* l is the Lagrange basis coefficient at 0 of xs[j] over xs, in [0, P).
IsLagrangeAtZero(l, xs, j) ==
  /\ l \in 0..(PRIME - 1)
  /\ (l * BasisProduct(xs, j, 1, xs[j]) - BasisProduct(xs, j, 1, 0)) % PRIME = 0

RECURSIVE WeightedSum(_, _, _)
WeightedSum(values, xs, j) ==
  IF j > Len(values) THEN 0
  ELSE ((lagrangeCoefficient(xs, j) * values[j]) % PRIME)
       + WeightedSum(values, xs, j + 1)

\* C28: computeNewShareFromSubShares(seatIndex, subShareValues,
\* oldSeatIndices) leaves the node with the share x = seatIndex,
\* y = (sum over j of lambda_j * subShareValues[j]) mod P, lambda_j the
\* Lagrange basis coefficient at 0 of oldSeatIndices[j]; the share it held is
\* replaced and nothing else changes.
C28_NewShare ==
  nodeCall.op = "computeNewShareFromSubShares"
  => LET xs == nodeCall.oldSeatIndices
         share == nodeCall.nodes[nodeCall.id].share
     IN  /\ \A j \in 1..Len(xs) :
              IsLagrangeAtZero(lagrangeCoefficient(xs, j), xs, j)
         /\ share.x = nodeCall.seatIndex
         /\ share.y = WeightedSum(nodeCall.subShareValues, xs, 1) % PRIME
         /\ nodeCall.nodes[nodeCall.id].randomValue
              = nodeCall.before[nodeCall.id].randomValue
         /\ \A other \in NodeIds \ {nodeCall.id} :
              nodeCall.nodes[other] = nodeCall.before[other]

C28_Witness ==
  /\ nodeCall.op = "computeNewShareFromSubShares"
  /\ nodeCall.before[nodeCall.id].share # NoShare
  /\ nodeCall.nodes[nodeCall.id].share.x # nodeCall.before[nodeCall.id].share.x
  /\ nodeCall.oldSeatIndices = <<3, 1, 2>>
  /\ nodeCall.subShareValues = <<PRIME - 1, 1, PRIME - 1>>
  /\ nodeCall.nodes[nodeCall.id].share.y \notin {0, 1, PRIME - 1}

\* C29 as stated: transferShareTo(next) returns false and changes no node
\* when the source holds no share; otherwise it returns true, the source then
\* holds no share and `next` holds the share the source held.  reset() leaves
\* a node with no share and election value 0.
C29_TransferAndResetExact ==
  /\ nodeCall.op = "transferShareTo"
       => IF nodeCall.before[nodeCall.id].share = NoShare
          THEN ~nodeCall.returned /\ nodeCall.nodes = nodeCall.before
          ELSE /\ nodeCall.returned
               /\ nodeCall.nodes[nodeCall.id].share = NoShare
               /\ nodeCall.nodes[nodeCall.nextHolder].share
                    = nodeCall.before[nodeCall.id].share
  /\ nodeCall.op = "reset"
       => nodeCall.nodes[nodeCall.id] = [randomValue |-> 0, share |-> NoShare]

\* C29, amended: as stated when `next` is another node than the source; a
\* node that transfers to itself returns true and keeps its share.  In both
\* cases no other node changes.
C29_TransferAndReset ==
  /\ nodeCall.op = "transferShareTo"
       => IF nodeCall.before[nodeCall.id].share = NoShare
          THEN ~nodeCall.returned /\ nodeCall.nodes = nodeCall.before
          ELSE /\ nodeCall.returned
               /\ nodeCall.nextHolder # nodeCall.id
                    => nodeCall.nodes[nodeCall.id].share = NoShare
               /\ nodeCall.nodes[nodeCall.nextHolder].share
                    = nodeCall.before[nodeCall.id].share
               /\ \A other \in NodeIds \ {nodeCall.id, nodeCall.nextHolder} :
                    nodeCall.nodes[other] = nodeCall.before[other]
  /\ nodeCall.op = "reset"
       => /\ nodeCall.nodes[nodeCall.id] = [randomValue |-> 0, share |-> NoShare]
          /\ \A other \in NodeIds \ {nodeCall.id} :
               nodeCall.nodes[other] = nodeCall.before[other]

\* A holder hands its share to the other holder, whose own share is replaced.
C29_Witness ==
  /\ nodeCall.op = "transferShareTo"
  /\ nodeCall.returned
  /\ nodeCall.nextHolder # nodeCall.id
  /\ nodeCall.before[nodeCall.nextHolder].share # NoShare
  /\ nodeCall.nodes[nodeCall.nextHolder].share
       = nodeCall.before[nodeCall.id].share
  /\ nodeCall.nodes[nodeCall.id].share = NoShare

\* C25: for every string b, bigIntToString(stringToBigInt(b)) is b without
\* its leading NUL characters: b itself when b does not start with one, and
\* the empty string when b consists of them.
C25_EncodingRoundTrip ==
  shamir.op = "roundTrip"
  => /\ shamir.text = StripLeadingNul(shamir.str)
     /\ (shamir.str = <<>> \/ shamir.str[1] # 0) => shamir.text = shamir.str
     /\ (\A i \in 1..Len(shamir.str) : shamir.str[i] = 0) => shamir.text = <<>>

\* C27: in the application driver no call of ecpss.encryptSecret,
\* ecpss.keepAlive or ecpss.reconstructSecret is issued while a previous one
\* is pending, in every interleaving of button presses, timer callbacks and
\* settlements.
C27_SerializedTriggers ==
  app.pc # "none" => ~app.overlap /\ Len(app.pending) <= 1

\* keepAlive is pending, issued after encryptSecret had settled, and the
\* keep-alive button has been pressed again meanwhile.
C27_Witness ==
  /\ app.pc = "mounted"
  /\ app.pending = <<"keepAlive">>
  /\ app.calls = 2
  /\ app.keepAliveFlag
  /\ ~app.interval

\* C31: in every election, for every vector of draws and every random
\* selection, the holding-committee list holds pairwise distinct node ids;
\* every nominator was given only ids not yet selected, and a nominator
\* selected itself only when it was the sole id not yet selected.
C31_NoDuplicateHolders ==
  election.pc \in {"nominate", "done"}
  => /\ \A a, b \in 1..Len(election.members) :
          a # b => election.members[a] # election.members[b]
     /\ \A c \in 1..Len(election.calls) :
          LET call == election.calls[c]
              selectedBefore ==
                { election.calls[k].returned : k \in 1..(c - 1) } \ {NoNominee}
          IN  /\ { call.available[k] : k \in 1..Len(call.available) }
                   = NodeIds \ selectedBefore
              /\ call.returned = call.id => call.available = <<call.id>>

\* All draws tie: every node nominates, node 1 selects node 3, node 2 selects
\* node 1, and node 3 is left with node 2 alone.
C31_Witness ==
  /\ election.pc = "done"
  /\ election.values = <<1, 1, 1>>
  /\ election.members = <<3, 1, 2>>
  /\ election.calls[totalNodes].available = <<2>>

\* C32: for every vector of draws, ties included, at least committeeSize and
\* at most totalNodes nodes nominate, and the holding committee elected has
\* as many members as there are nominators, hence at least threshold.
C32_ElectionLowerBound ==
  election.pc = "done"
  => /\ Cardinality(Nominators) >= nominatingSize
     /\ Cardinality(Nominators) <= totalNodes
     /\ Len(election.members) = Cardinality(Nominators)
     /\ Len(election.members) >= threshold

\* The two smallest draws tie with the third below them: all three nodes
\* are at or below the limit and nominate.
C32_Witness ==
  /\ election.pc = "done"
  /\ election.values = <<2, 2, 0>>
  /\ Nominators = NodeIds
  /\ Len(election.members) = totalNodes
  /\ nominatingSize < totalNodes

\* The shares held by the nodes of T, in the order of the node map.
SharesOf(T) ==
  LET ids == SelectSeq(nodeKeys, LAMBDA n : n \in T)
  IN  [k \in 1..Len(ids) |-> nodes[ids[k]].share]

\* C33: in every state reachable by the three triggers, encryptSecret during
\* a custody included, the shares held lie on one polynomial of degree at
\* most threshold - 1 whose value at 0 is the encoding of the secret
\* encrypted last: no two of them differ at the same x, and every
\* `threshold` of them with distinct x interpolate to that encoding at 0.
C33_CustodyConsistency ==
  LET held == HeldIds(nodes)
  IN  /\ \A a, b \in held :
           nodes[a].share.x = nodes[b].share.x
             => nodes[a].share.y = nodes[b].share.y
      /\ \A T \in SUBSET held :
           (/\ Cardinality(T) = threshold
            /\ \A a, b \in T : a # b => nodes[a].share.x # nodes[b].share.x)
           => interpolateAtZero(SharesOf(T))
                = stringToBigInt(lastSecret) % PRIME

\* C34: in every state reachable by the triggers the number of nodes that
\* hold a share is 0 or at least threshold; a handover that passes the
\* empty-custody check therefore finds a row of sub-shares for each of the
\* first `threshold` old holders, never fails on a missing row, and gives
\* every new holder a share.
C34_HandoverRows ==
  /\ Cardinality(HeldIds(nodes)) \in {0} \cup threshold..totalNodes
  /\ (lastOp = "keepAlive" /\ preHeld > 0)
       => /\ preHeld >= threshold
          /\ outcome = "new shares created via handover"
          /\ HeldIds(nodes) = { holders[k] : k \in 1..Len(holders) }

\* A handover from exactly `threshold` holders to every node: each of the
\* new holders has a share.
C34_Witness ==
  /\ lastOp = "keepAlive"
  /\ currentEpoch = 2
  /\ preHeld = threshold
  /\ Len(holders) = totalNodes
  /\ HeldIds(nodes) = NodeIds
  /\ outcome = "new shares created via handover"

\* C35: for threshold >= 2, when the highest random coefficient chosen by
\* createShares is not 0, interpolating at 0 from any threshold - 1 of the
\* shares gives a value other than the encoding of the secret.
C35_StrictInsufficiency ==
  (/\ shamir.op = "reconstruct"
   /\ shamir.t >= 2
   /\ Len(shamir.picked) = shamir.t - 1
   /\ shamir.rnd[shamir.t - 1] # 0)
  => /\ shamir.value # stringToBigInt(shamir.secret)
     /\ shamir.value # stringToBigInt(shamir.secret) % PRIME

\* Two of the shares of a polynomial of degree 2 whose middle coefficient is
\* 0: they interpolate to another value than the encoding of "A".
C35_Witness ==
  /\ shamir.op = "reconstruct"
  /\ shamir.secret = <<65>>
  /\ shamir.t = 3
  /\ shamir.rnd = <<0, PRIME - 1>>
  /\ Len(shamir.picked) = 2
  /\ shamir.value # 65

\* A frame has a write, or an await and with it the writes of the function
\* awaited, still to execute.
WritesAhead(frame) ==
  \E k \in frame.pc..Len(body(frame.fn)) :
    body(frame.fn)[k].kind \in {"write", "await"}

\* C36: every write of a trigger to the epoch counter, the node map and the
\* shares is made before the call is first suspended: a suspended call has
\* no write left to make and has made none since, and every task, the start
\* of a second trigger included, begins on a state no call has left
\* half-written.
C36_TriggerAtomicity ==
  async.pc # "none"
  => /\ ~async.sawPartial
     /\ async.running = 0 => settled(async.sim)
     /\ \A c \in 1..Len(async.calls) :
          LET call == async.calls[c]
          IN  /\ call.lateWrites = 0
              /\ call.status = "suspended"
                   => \A d \in 1..Len(call.chain) : ~WritesAhead(call.chain[d])

\* keepAlive has been started while encryptSecret is suspended at its await:
\* it has run its handover on the shares encryptSecret distributed.
C36_Witness ==
  /\ async.pc # "none"
  /\ Len(async.calls) = 2
  /\ async.calls[1].trigger = "encryptSecret"
  /\ async.calls[1].status = "suspended"
  /\ async.calls[2].trigger = "keepAlive"
  /\ async.calls[2].status = "suspended"
  /\ async.sim = [currentEpoch |-> 2, custody |-> TRUE, sharesEpoch |-> 2,
                  nodes |-> "whole"]

\* C39: after any sequence of addLog and clearLogs calls the log list has
\* at most maxLogs entries, which are the entries added last, in the order
\* in which they were added, and clearLogs leaves it empty.
C39_LogBufferBound ==
  logs # <<>>
  => LET kept == IF Len(logs.all) < maxLogs THEN Len(logs.all) ELSE maxLogs
     IN  /\ Len(logs.list) <= maxLogs
         /\ Len(logs.list) = kept
         /\ logs.list = SubSeq(logs.all, Len(logs.all) - kept + 1,
                               Len(logs.all))
         /\ logs.op = "clearLogs" => logs.list = <<>>

\* Two entries more than maxLogs have been added: the two oldest are gone.
C39_Witness ==
  /\ logs # <<>>
  /\ logs.op = "addLog"
  /\ Len(logs.all) = maxLogs + 2
  /\ Len(logs.list) = maxLogs
  /\ logs.all[1] = [message |-> "a", type |-> "info"]
  /\ logs.all[2] = [message |-> "a", type |-> "error"]
  /\ logs.list[1] = [message |-> "b", type |-> "info"]
  /\ logs.list[maxLogs] = [message |-> "b", type |-> "error"]

\* C38: after the earlier, transfer-based handover with m new holders and c
\* old nodes holding shares, min(m, c) shares are held; the i-th new holder
\* holds, unmodified, the share of the i-th old holder in the order of the
\* node ids, and no other node holds a share.
C38_TransferHandover ==
  nodeCall.op = "transferSharesEarlier"
  => LET oldHolders ==
           SelectSeq(nodeKeys, LAMBDA n : nodeCall.before[n].share # NoShare)
         m == Len(nodeCall.newHolderIds)
         c == Len(oldHolders)
         moved == IF m < c THEN m ELSE c
     IN  /\ Cardinality(HeldIds(nodeCall.nodes)) = moved
         /\ nodeCall.transferCount = moved
         /\ \A i \in 1..moved :
              nodeCall.nodes[nodeCall.newHolderIds[i]].share
                = nodeCall.before[oldHolders[i]].share
         /\ HeldIds(nodeCall.nodes)
              = { nodeCall.newHolderIds[i] : i \in 1..moved }

\* Nodes 2 and 3 hold shares and the new holders are 3, 1, 2: node 3
\* receives the share of node 2, node 1 that of node 3, node 2 none.
C38_Witness ==
  /\ nodeCall.op = "transferSharesEarlier"
  /\ HeldIds(nodeCall.before) = {2, 3}
  /\ nodeCall.newHolderIds = <<3, 1, 2>>
  /\ nodeCall.nodes[3].share = nodeCall.before[2].share
  /\ nodeCall.nodes[1].share = nodeCall.before[3].share
  /\ nodeCall.nodes[2].share = NoShare
  /\ nodeCall.before[2].share # nodeCall.before[3].share

\* The safety part of C37.
TimerProtocol ==
  /\ app.op = "timerExpiry"
       => /\ app.calls = app.last.calls + 1
          /\ app.pending = <<app.last.issued>>
          /\ app.last.issued = IF app.last.pressed > 0 THEN "keepAlive"
                               ELSE "reconstructSecret"
  /\ app.op \in {"keepAliveSettled", "reconstructSettled"}
       => ~app.keepAliveFlag /\ app.pressed = 0
  /\ app.keepAliveFlag = (app.pressed > 0)

\* C37: each timer expiry issues exactly one call, ecpss.keepAlive when the
\* keep-alive button was pressed since the last expiry, however often, and
\* ecpss.reconstructSecret otherwise; the flag is false when an expiry has
\* been handled; and a countdown in which the button is not pressed leads to
\* the reconstruction and to the not-encrypted state.
C37_TimerProtocol ==
  /\ []TimerProtocol
  /\ (app.isEncrypted /\ ~app.keepAliveFlag)
       ~> (~app.isEncrypted \/ app.keepAliveFlag)

\* Two presses in one countdown have led to one keepAlive call, which has
\* settled, and the next countdown has begun with the flag unset.
C37_Witness ==
  /\ app.op = "keepAliveSettled"
  /\ app.last = [pressed |-> 2, calls |-> 1, issued |-> "keepAlive"]
  /\ app.calls = 2
  /\ app.interval
  /\ ~app.keepAliveFlag
  /\ app.isEncrypted

====
